---- MODULE Spec2Model ----
(***************************************************************************)
(* Verification model of the ymir VC trust engine: DID resolution, JWT     *)
(* validation, the OIDC4VP credential verifier and the OIDC4VCI credential *)
(* issuer.                                                                 *)
(*                                                                         *)
(* Strings are TLC strings.  Operations that look inside a string          *)
(* (split_once('#'), starts_with, replace) work on the string's piece      *)
(* decomposition, a sequence of substrings whose concatenation is the      *)
(* string; Cat turns pieces back into the string.                          *)
(***************************************************************************)
EXTENDS Naturals, Integers, Sequences, FiniteSets, TLC

VARIABLES
    now,        \* wall clock read by Utc::now()
    net,        \* the DID document served for the hosted did:web domain
    vcfg,       \* BasicVerifierConfig
    vsess,      \* recv_verification::Model handled by the verifier
    vres,       \* the last verifier call: its input and its outcome
    icfg,       \* BasicIssuerConfig
    isess,      \* issuing::Model handled by the issuer
    ires        \* the last issuer call: its input and its outcome

vars == <<now, net, vcfg, vsess, vres, icfg, isess, ires>>

(***************************************************************************)
(* Bounds                                                                  *)
(***************************************************************************)
MaxTime == 2        \* the clock runs over 0..MaxTime
MaxVcs == 2         \* credentials carried by one presentation

(***************************************************************************)
(* Option values and results                                               *)
(***************************************************************************)
None == [some |-> FALSE]
Some(x) == [some |-> TRUE, v |-> x]

Ok == [k |-> "Ok", m |-> ""]
Err(kind, msg) == [k |-> kind, m |-> msg]
IsOk(r) == r.k = "Ok"

\* `let x = e; ...` : the body F applied to the value of e
With(e, F(_)) == F(e)

\* `r?; next` : the error of r, or else next
Then(r, next) == IF IsOk(r) THEN next ELSE r

(***************************************************************************)
(* Strings as pieces                                                       *)
(***************************************************************************)
RECURSIVE Cat(_)
Cat(ps) == IF ps = <<>> THEN "" ELSE Head(ps) \o Cat(Tail(ps))

\* str::replace(from, to) on a piece decomposition that isolates `from`
ReplacePiece(ps, from, to) == [i \in DOMAIN ps |-> IF ps[i] = from THEN to ELSE ps[i]]

\* str::replace(from, "") : the matching pieces disappear
RemovePiece(ps, from) == SelectSeq(ps, LAMBDA p : p # from)

\* index of the first piece equal to c, 0 when there is none
FirstIndex(ps, c) ==
    IF \E i \in DOMAIN ps : ps[i] = c
    THEN CHOOSE i \in DOMAIN ps : ps[i] = c /\ \A j \in 1..(i - 1) : ps[j] # c
    ELSE 0

(***************************************************************************)
(* DIDs and keys                                                           *)
(***************************************************************************)
\* piece decompositions of the DID strings that occur in tokens
DidHolderA == <<"did:jwk:", "A">>
DidHolderAFrag == <<"did:jwk:", "A", "#", "0">>
DidHolderB == <<"did:jwk:", "B">>
DidIssuer == <<"did:jwk:", "I">>
DidIssuerFrag == <<"did:jwk:", "I", "#", "0">>
DidIssuerB == <<"did:jwk:", "J">>
DidBadJwk == <<"did:jwk:", "%%">>
DidWeb == <<"did:web:", "w.example", "#", "k1">>
DidWebOtherKey == <<"did:web:", "w.example", "#", "k2">>
DidWebNoFrag == <<"did:web:", "w.example">>
DidWebPath == <<"did:web:", "w.example", ":", "a", ":", "b", "#", "k1">>
DidKey == <<"did:key:", "z6Mk">>

DidPieces ==
    { DidHolderA, DidHolderAFrag, DidHolderB, DidIssuer, DidIssuerFrag, DidIssuerB,
      DidBadJwk,
      DidWeb, DidWebOtherKey, DidWebNoFrag, DidWebPath, DidKey,
      <<"did:web:", "w.example">>, <<"did:web:", "w.example", ":", "a", ":", "b">> }

\* the piece decomposition of a DID string (the lexer of the string operations)
Pieces(s) == IF \E p \in DidPieces : Cat(p) = s
             THEN CHOOSE p \in DidPieces : Cat(p) = s
             ELSE <<s>>

\* DidResolver::split_did_id : split on the first '#'
split_did_id(did) ==
    With(Pieces(did), LAMBDA ps :
    With(FirstIndex(ps, "#"), LAMBDA i :
        IF i = 0
        THEN [base |-> did, frag |-> None]
        ELSE [base |-> Cat(SubSeq(ps, 1, i - 1)),
              frag |-> Some(Cat(SubSeq(ps, i + 1, Len(ps))))]))

\* DidResolver::parse_did : prefix match on the DID method
parse_did(did) ==
    With(Pieces(did), LAMBDA ps :
        IF ps # <<>> /\ Head(ps) = "did:web:" THEN "Web"
        ELSE IF ps # <<>> /\ Head(ps) = "did:jwk:" THEN "Jwk"
        ELSE "Other")

\* the segments of a ':'-separated piece sequence (str::split(':'))
RECURSIVE SplitColon(_)
SplitColon(ps) ==
    With(FirstIndex(ps, ":"), LAMBDA i :
        IF i = 0 THEN <<Cat(ps)>>
        ELSE <<Cat(SubSeq(ps, 1, i - 1))>> \o SplitColon(SubSeq(ps, i + 1, Len(ps))))

RECURSIVE JoinSlash(_)
JoinSlash(segs) ==
    IF Len(segs) = 0 THEN ""
    ELSE IF Len(segs) = 1 THEN segs[1]
    ELSE segs[1] \o "/" \o JoinSlash(Tail(segs))

\* parse_domain with the single-segment arm for every domain
parse_domain_well_known(domainPs) ==
    "https://" \o SplitColon(domainPs)[1] \o "/.well-known/did.json"

\* DidResolver::parse_domain, on the piece decomposition of the domain
parse_domain(domainPs) ==
    With(SplitColon(domainPs), LAMBDA parts :
        IF Len(parts) = 1
        THEN "https://" \o parts[1] \o "/.well-known/did.json"
        ELSE IF Len(parts) > 1
        THEN "https://" \o parts[1] \o "/" \o JoinSlash(Tail(parts)) \o "/did.json"
        ELSE "")

\* base64url-decode + serde_json + DecodingKey::from_jwk of a did:jwk body:
\* the key a well-formed body encodes, None for a body that does not decode
JwkOfBody(body) ==
    CASE body = "A" -> Some("keyA")
      [] body = "B" -> Some("keyB")
      [] body = "I" -> Some("keyI")
      [] body = "J" -> Some("keyJ")
      [] OTHER -> None

\* documents the hosted did:web domain can serve
DocV1 == [status |-> 200,
          methods |-> << [id |-> "did:web:w.example#k0", jwk |-> Some("keyW0")],
                         [id |-> "did:web:w.example#k1", jwk |-> Some("keyW1")] >>]
DocV2 == [status |-> 200,
          methods |-> << [id |-> "did:web:w.example#k1", jwk |-> Some("keyW2")] >>]
DocDown == [status |-> 503, methods |-> << >>]
DocError == [status |-> 500, methods |-> << >>]
DocMissing == [status |-> 404, methods |-> << >>]
DocForbidden == [status |-> 403, methods |-> << >>]
\* a success status other than 200 with the document as body
DocAccepted == [status |-> 202,
                methods |-> << [id |-> "did:web:w.example#k1", jwk |-> Some("keyW1")] >>]
\* entries named by relative ids, and one without publicKeyJwk
DocRelative == [status |-> 200,
                methods |-> << [id |-> "#k1", jwk |-> Some("keyW1")],
                               [id |-> "did:web:w.example#k2", jwk |-> None] >>]
\* an entry for another key first, then two entries with the same id
DocTwice == [status |-> 200,
             methods |-> << [id |-> "did:web:w.example#k2", jwk |-> Some("keyW0")],
                            [id |-> "did:web:w.example#k1", jwk |-> Some("keyW1")],
                            [id |-> "did:web:w.example#k1", jwk |-> Some("keyW2")] >>]
NetDocs ==
    {DocV1, DocV2, DocDown, DocError, DocMissing, DocForbidden, DocAccepted,
     DocRelative, DocTwice}

HostedUrl == "https://w.example/.well-known/did.json"

\* a fetch answered from a copy of the document taken once
Fetch_from_copy(url, n) == IF url = HostedUrl THEN DocV1 ELSE [status |-> 404, methods |-> << >>]

\* ClientTrait::get : the response for a URL
Fetch(url, n) == IF url = HostedUrl THEN n ELSE [status |-> 404, methods |-> << >>]

\* ClientService::send_request without its is_server_error branch
client_get_any_status(url, n) == [res |-> Ok, doc |-> Fetch(url, n), url |-> url]

\* ClientTrait::get (ClientService::dispatch, execute_with_retries, send_request)
\* against a server that keeps answering the same: a 5xx status is a Petition
\* error, any other response is handed to the caller
client_get(url, n) ==
    With(Fetch(url, n), LAMBDA response :
        IF response.status >= 500 /\ response.status <= 599
        THEN [res |-> Err("Petition", "HttpStatus"), doc |-> response, url |-> url]
        ELSE [res |-> Ok, doc |-> response, url |-> url])

\* get_key taking the first verificationMethod entry whatever the key id
get_key_first_method(did, n) ==
    With(split_did_id(did), LAMBDA sp :
    With(parse_did(did), LAMBDA ty :
        IF ty = "Jwk"
        THEN With(JwkOfBody(Cat(RemovePiece(Pieces(sp.base), "did:jwk:"))), LAMBDA jwk :
                 IF jwk.some THEN [res |-> Ok, key |-> jwk.v, fetched |-> << >>]
                 ELSE [res |-> Err("Raw", "decode"), key |-> "", fetched |-> << >>])
        ELSE IF ty = "Web"
        THEN IF ~sp.frag.some
             THEN [res |-> Err("Format", "did:web requires a key id fragment (#...)"),
                   key |-> "", fetched |-> << >>]
             ELSE With(client_get(parse_domain(RemovePiece(Pieces(sp.base), "did:web:")), n),
                       LAMBDA got :
                  With(got.doc.methods,
                       LAMBDA hits :
                      IF ~IsOk(got.res)
                      THEN [res |-> got.res, key |-> "", fetched |-> <<got.url>>]
                      ELSE IF got.doc.status # 200
                      THEN [res |-> Err("Format", "Did Document not retrieved"),
                            key |-> "", fetched |-> <<got.url>>]
                      ELSE IF hits = <<>>
                      THEN [res |-> Err("Format", "Key not found"),
                            key |-> "", fetched |-> <<got.url>>]
                      ELSE IF ~hits[1].jwk.some
                      THEN [res |-> Err("Format", "Missing publicKeyJwk"),
                            key |-> "", fetched |-> <<got.url>>]
                      ELSE [res |-> Ok, key |-> hits[1].jwk.v, fetched |-> <<got.url>>]))
        ELSE [res |-> Err("NotImpl", "did method"), key |-> "", fetched |-> << >>]))

\* get_key that fetches the document before it asks for the key id fragment
get_key_fetching_first(did, n) ==
    With(split_did_id(did), LAMBDA sp :
        IF parse_did(did) = "Web" /\ ~sp.frag.some
        THEN [res |-> Err("Format", "did:web requires a key id fragment (#...)"),
              key |-> "",
              fetched |-> <<parse_domain(RemovePiece(Pieces(sp.base), "did:web:"))>>]
        ELSE get_key_first_method(did, n))

\* DidResolver::get_key
get_key(did, n) ==
    With(split_did_id(did), LAMBDA sp :
    With(parse_did(did), LAMBDA ty :
        IF ty = "Jwk"
        THEN With(JwkOfBody(Cat(RemovePiece(Pieces(sp.base), "did:jwk:"))), LAMBDA jwk :
                 IF jwk.some THEN [res |-> Ok, key |-> jwk.v, fetched |-> << >>]
                 ELSE [res |-> Err("Raw", "decode"), key |-> "", fetched |-> << >>])
        ELSE IF ty = "Web"
        THEN IF ~sp.frag.some
             THEN [res |-> Err("Format", "did:web requires a key id fragment (#...)"),
                   key |-> "", fetched |-> << >>]
             ELSE With(client_get(parse_domain(RemovePiece(Pieces(sp.base), "did:web:")), n),
                       LAMBDA got :
                  With(SelectSeq(got.doc.methods,
                                 LAMBDA m : m.id = sp.base \o "#" \o sp.frag.v),
                       LAMBDA hits :
                      IF ~IsOk(got.res)
                      THEN [res |-> got.res, key |-> "", fetched |-> <<got.url>>]
                      ELSE IF got.doc.status # 200
                      THEN [res |-> Err("Format", "Did Document not retrieved"),
                            key |-> "", fetched |-> <<got.url>>]
                      ELSE IF hits = <<>>
                      THEN [res |-> Err("Format", "Key not found"),
                            key |-> "", fetched |-> <<got.url>>]
                      ELSE IF ~hits[1].jwk.some
                      THEN [res |-> Err("Format", "Missing publicKeyJwk"),
                            key |-> "", fetched |-> <<got.url>>]
                      ELSE [res |-> Ok, key |-> hits[1].jwk.v, fetched |-> <<got.url>>]))
        ELSE [res |-> Err("NotImpl", "did method"), key |-> "", fetched |-> << >>]))

(***************************************************************************)
(* JSON values and claim extraction                                        *)
(***************************************************************************)
JStr(s) == [t |-> "str", s |-> s]
JNum(n) == [t |-> "num", n |-> n]
JObj(f) == [t |-> "obj", o |-> f]
JArr(a) == [t |-> "arr", a |-> a]
\* a JSON string whose content is the compact serialization of the JWT j
JJwt(j) == [t |-> "jwt", j |-> j]
EmptyObj == JObj(<<>>)

\* serde_json::Value::get(key) : Some(child) of an object that has the key
JGet(node, key) ==
    IF node.t = "obj" /\ key \in DOMAIN node.o THEN Some(node.o[key]) ELSE None

\* serde_json::Value::as_str
as_str(node) ==
    IF node.t = "str" THEN Some(node.s)
    ELSE IF node.t = "jwt" THEN Some(node.j)
    ELSE None

\* utils::validate_data
validate_data(node, field) ==
    LET s == as_str(node)
    IN IF s.some THEN [res |-> Ok, val |-> s.v]
       ELSE [res |-> Err("Format", "Field not a string"), val |-> ""]

\* utils::get_claim : every key of the path must exist and the leaf be a string
RECURSIVE get_claim(_, _)
get_claim(node, path) ==
    IF path = <<>> THEN validate_data(node, "")
    ELSE LET c == JGet(node, Head(path))
         IN IF c.some THEN get_claim(c.v, Tail(path))
            ELSE [res |-> Err("Format", "Missing field"), val |-> ""]

\* utils::get_opt_claim : a missing key gives Ok(None), a non-string leaf an error
RECURSIVE get_opt_claim(_, _)
get_opt_claim(node, path) ==
    IF path = <<>>
    THEN LET d == validate_data(node, "")
         IN [res |-> d.res, val |-> IF IsOk(d.res) THEN Some(d.val) ELSE None]
    ELSE LET c == JGet(node, Head(path))
         IN IF c.some THEN get_opt_claim(c.v, Tail(path))
            ELSE [res |-> Ok, val |-> None]

(***************************************************************************)
(* Dates                                                                   *)
(***************************************************************************)
Digits == <<"0", "1", "2", "3", "4", "5", "6", "7", "8", "9">>
\* the RFC 3339 text of clock value n
DateStr(n) == "1970-01-01T0" \o Digits[n + 1] \o ":00:00Z"
\* DateTime::parse_from_rfc3339
parse_from_rfc3339(s) ==
    IF \E n \in 0..9 : DateStr(n) = s
    THEN Some(CHOOSE n \in 0..9 : DateStr(n) = s)
    ELSE None

(***************************************************************************)
(* JWTs.  A JWT is [wf, kid, signer, claims]: wf says whether its header   *)
(* parses, kid is the header's kid, signer the key that made the           *)
(* signature, claims the JSON body.                                        *)
(***************************************************************************)
\* jsonwebtoken::decode with the Validation both validate_token functions
\* build: no required claims, exp not validated, nbf validated, aud validated
\* against `audience` when one is given
jwt_decode(tok, key, audience, t) ==
    LET nbf == JGet(tok.claims, "nbf")
        aud == JGet(tok.claims, "aud")
    IN /\ tok.signer = key
       /\ ~(nbf.some /\ nbf.v.t = "num" /\ nbf.v.n > t)
       /\ \/ ~audience.some
          \/ ~aud.some
          \/ aud.v.t = "str" /\ aud.v.s = audience.v
          \/ aud.v.t = "arr" /\ \E i \in DOMAIN aud.v.a : aud.v.a[i] = JStr(audience.v)

\* the JWT a string that is no compact serialization stands for
GarbageJwt == [wf |-> FALSE, kid |-> None, signer |-> "", claims |-> EmptyObj]

(***************************************************************************)
(* Credential types.  A VcType is [v, of]: the variant and, for            *)
(* LegalRegistrationNumber, the LegalRegistrationNumberTypes variant it    *)
(* wraps ("" for the unit variants).                                       *)
(***************************************************************************)
MaxTypes == 2

\* the longest did:web domain, in ':'-separated segments
MaxSegments == 3

\* the flows that work on one session at the same time
MaxFlows == 2

\* the dispatches in flight on one ClientService, the largest concurrency_limit
\* and the largest max_retries it is built with
MaxDispatches == 2
MaxPermits == 2
MaxRetries == 2

\* the width of the u64 the backoff is computed in
U64Bits == 64

LegalRegistrationNumber(of) == [v |-> "LegalRegistrationNumber", of |-> of]
DataspaceParticipant == [v |-> "DataspaceParticipant", of |-> ""]
LegalPerson == [v |-> "LegalPerson", of |-> ""]
TermsAndConditions == [v |-> "TermsAndConditions", of |-> ""]
Unknown == [v |-> "Unknown", of |-> ""]

LegalRegistrationNumberTypes == {"TaxId", "Euid", "Eori", "VatId", "LeiCode"}

VcTypes ==
    { LegalRegistrationNumber(of) : of \in LegalRegistrationNumberTypes }
    \cup {DataspaceParticipant, LegalPerson, TermsAndConditions, Unknown}

\* the lists of at most MaxTypes credential types
VcTypeLists == UNION { [1..n -> VcTypes] : n \in 0..MaxTypes }

\* impl Display for VcType
vc_type_to_string(t) ==
    CASE t = LegalRegistrationNumber("TaxId") -> "LegalRegistrationNumber-tax_id"
      [] t = LegalRegistrationNumber("Euid") -> "LegalRegistrationNumber-euid"
      [] t = LegalRegistrationNumber("Eori") -> "LegalRegistrationNumber-eori"
      [] t = LegalRegistrationNumber("VatId") -> "LegalRegistrationNumber-vat_id"
      [] t = LegalRegistrationNumber("LeiCode") -> "LegalRegistrationNumber-lei_code"
      [] t = DataspaceParticipant -> "DataspaceParticipant"
      [] t = LegalPerson -> "LegalPerson"
      [] t = TermsAndConditions -> "TermsAndConditions"
      [] OTHER -> "Unknown"

\* impl FromStr for VcType
vc_type_from_str(s) ==
    CASE s = "LegalRegistrationNumber-tax_id" -> Some(LegalRegistrationNumber("TaxId"))
      [] s = "LegalRegistrationNumber-euid" -> Some(LegalRegistrationNumber("Euid"))
      [] s = "LegalRegistrationNumber-eori" -> Some(LegalRegistrationNumber("Eori"))
      [] s = "LegalRegistrationNumber-vat_id" -> Some(LegalRegistrationNumber("VatId"))
      [] s = "LegalRegistrationNumber-lei_code" -> Some(LegalRegistrationNumber("LeiCode"))
      [] s = "DataspaceParticipant" -> Some(DataspaceParticipant)
      [] s = "LegalPerson" -> Some(LegalPerson)
      [] s = "TermsAndConditions" -> Some(TermsAndConditions)
      [] OTHER -> None

\* VcType::to_conf
to_conf(t) ==
    CASE t.v = "LegalRegistrationNumber" -> "LegalRegistrationNumber_jwt_vc_json"
      [] t = DataspaceParticipant -> "DataspaceParticipant_vc_json"
      [] t = LegalPerson -> "LegalPerson_jwt_vc_json"
      [] t = TermsAndConditions -> "TermsAndConditions_jwt_vc_json"
      [] OTHER -> "Unknown"

\* #[derive(Serialize)] for VcType as JSON text: a unit variant is its name as
\* a string, a newtype variant an object of one member
SerializeVcType(t) ==
    IF t.of = "" THEN "\"" \o t.v \o "\""
    ELSE "{\"" \o t.v \o "\":\"" \o t.of \o "\"}"

RECURSIVE JoinComma(_)
JoinComma(texts) ==
    IF texts = << >> THEN ""
    ELSE IF Len(texts) = 1 THEN texts[1]
    ELSE texts[1] \o "," \o JoinComma(Tail(texts))

\* serde_json::to_string(&Vec<VcType>)
vc_types_to_string(types) ==
    "[" \o JoinComma([i \in DOMAIN types |-> SerializeVcType(types[i])]) \o "]"

\* serde_json::from_str::<Vec<VcType>> : the list whose JSON text the string is
vc_types_from_str(text) ==
    IF \E l \in VcTypeLists : vc_types_to_string(l) = text
    THEN Some(CHOOSE l \in VcTypeLists : vc_types_to_string(l) = text)
    ELSE None

(***************************************************************************)
(* Configuration                                                           *)
(***************************************************************************)
\* SingleHostTrait::get_host, as pieces
get_host(host) ==
    IF host.port.some
    THEN <<host.protocol, "://", host.url, ":", host.port.v>>
    ELSE <<host.protocol, "://", host.url>>

\* `match is_local { true => s.replace("127.0.0.1", "host.docker.internal"), false => s }`
Localize(ps, is_local) ==
    IF is_local THEN ReplacePiece(ps, "127.0.0.1", "host.docker.internal") ELSE ps

LoopbackHost == [protocol |-> "http", url |-> "127.0.0.1", port |-> Some("1500")]
PublicHost == [protocol |-> "https", url |-> "node.example", port |-> None]

VerifierConfigs ==
    { [host |-> LoopbackHost, is_local |-> TRUE, api_path |-> "/api/v1",
       requested_vcs |-> <<LegalPerson>>],
      [host |-> LoopbackHost, is_local |-> FALSE, api_path |-> "/api/v1",
       requested_vcs |-> <<LegalPerson, DataspaceParticipant>>],
      [host |-> PublicHost, is_local |-> FALSE, api_path |-> "",
       requested_vcs |-> <<LegalRegistrationNumber("TaxId"), LegalPerson>>],
      [host |-> PublicHost, is_local |-> TRUE, api_path |-> "/api/v1",
       requested_vcs |-> << >>] }

(***************************************************************************)
(* Credential verifier                                                     *)
(***************************************************************************)
\* the audience validate_token demands for Some(state)
VerifierAudience(cfg, state) ==
    Cat(Localize(get_host(cfg.host) \o <<cfg.api_path, "/verifier/verify/", state>>,
                 cfg.is_local))

\* BasicVerifierService::validate_token
validate_token(cfg, n, t, tok, audience) ==
    IF ~tok.wf THEN [res |-> Err("Raw", "InvalidToken"), claims |-> EmptyObj, kid |-> ""]
    ELSE IF ~tok.kid.some
    THEN [res |-> Err("Format", "Jwt does not contain a token"),
          claims |-> EmptyObj, kid |-> ""]
    ELSE With(get_key(tok.kid.v, n), LAMBDA k :
         IF ~IsOk(k.res) THEN [res |-> k.res, claims |-> EmptyObj, kid |-> ""]
         ELSE IF ~jwt_decode(tok, k.key,
                             IF audience.some
                             THEN Some(VerifierAudience(cfg, audience.v)) ELSE None,
                             t)
         THEN [res |-> Err("Security", "VPT signature is incorrect"),
               claims |-> EmptyObj, kid |-> ""]
         ELSE [res |-> Ok, claims |-> tok.claims, kid |-> split_did_id(tok.kid.v).base])

\* check_iss
check_iss(iss, kid) ==
    IF iss.some /\ iss.v # kid
    THEN Err("Security", "VPT token issuer & kid does not match")
    ELSE Ok

\* validate_nonce without its comparison: any string nonce passes
validate_nonce_unchecked(model, claims) ==
    get_claim(claims, <<"nonce">>).res

\* BasicVerifierService::validate_nonce
validate_nonce(model, claims) ==
    LET nonce == get_claim(claims, <<"nonce">>)
    IN IF ~IsOk(nonce.res) THEN nonce.res
       ELSE IF model.nonce # nonce.val
            THEN Err("Security", "Invalid nonce, it does not match")
       ELSE Ok

\* validate_vp_subject that also consumes the session's nonce on success
validate_vp_subject_consuming_nonce(model, claims, kid) ==
    LET sub == get_opt_claim(claims, <<"sub">>)
        iss == get_opt_claim(claims, <<"iss">>)
    IN IF ~IsOk(sub.res) THEN [res |-> sub.res, model |-> model]
       ELSE IF ~IsOk(iss.res) THEN [res |-> iss.res, model |-> model]
       ELSE IF sub.val.some /\ sub.val.v # kid
            THEN [res |-> Err("Security", "VPT token subject & kid does not match"),
                  model |-> model]
       ELSE IF ~IsOk(check_iss(iss.val, kid))
            THEN [res |-> check_iss(iss.val, kid), model |-> model]
       ELSE [res |-> Ok, model |-> [model EXCEPT !.holder = Some(kid), !.nonce = ""]]

\* validate_vp_subject that checks without recording the holder
validate_vp_subject_not_recording(model, claims, kid) ==
    LET sub == get_opt_claim(claims, <<"sub">>)
        iss == get_opt_claim(claims, <<"iss">>)
    IN IF ~IsOk(sub.res) THEN [res |-> sub.res, model |-> model]
       ELSE IF ~IsOk(iss.res) THEN [res |-> iss.res, model |-> model]
       ELSE IF sub.val.some /\ sub.val.v # kid
            THEN [res |-> Err("Security", "VPT token subject & kid does not match"),
                  model |-> model]
       ELSE [res |-> check_iss(iss.val, kid), model |-> model]

\* validate_vp_subject that records the holder before its checks
validate_vp_subject_holder_first(model, claims, kid) ==
    LET sub == get_opt_claim(claims, <<"sub">>)
        iss == get_opt_claim(claims, <<"iss">>)
        held == [model EXCEPT !.holder = Some(kid)]
    IN IF ~IsOk(sub.res) THEN [res |-> sub.res, model |-> held]
       ELSE IF ~IsOk(iss.res) THEN [res |-> iss.res, model |-> held]
       ELSE IF sub.val.some /\ sub.val.v # kid
            THEN [res |-> Err("Security", "VPT token subject & kid does not match"),
                  model |-> held]
       ELSE [res |-> check_iss(iss.val, kid), model |-> held]

\* BasicVerifierService::validate_vp_subject : the result and the model it leaves
validate_vp_subject(model, claims, kid) ==
    LET sub == get_opt_claim(claims, <<"sub">>)
        iss == get_opt_claim(claims, <<"iss">>)
    IN IF ~IsOk(sub.res) THEN [res |-> sub.res, model |-> model]
       ELSE IF ~IsOk(iss.res) THEN [res |-> iss.res, model |-> model]
       ELSE IF sub.val.some /\ sub.val.v # kid
            THEN [res |-> Err("Security", "VPT token subject & kid does not match"),
                  model |-> model]
       ELSE IF ~IsOk(check_iss(iss.val, kid))
            THEN [res |-> check_iss(iss.val, kid), model |-> model]
       ELSE [res |-> Ok, model |-> [model EXCEPT !.holder = Some(kid)]]

\* BasicVerifierService::validate_vp_id
validate_vp_id(model, claims) ==
    LET vp_id == get_claim(claims, <<"vp", "id">>)
    IN IF ~IsOk(vp_id.res) THEN vp_id.res
       ELSE IF model.id # vp_id.val THEN Err("Security", "Invalid id, it does not match")
       ELSE Ok

\* validate_holder without its comparison: any string vp.holder passes
validate_holder_unchecked(model, claims) ==
    get_claim(claims, <<"vp", "holder">>).res

\* BasicVerifierService::validate_holder ; model.holder.unwrap() panics on None
validate_holder(model, claims) ==
    LET vp_holder == get_claim(claims, <<"vp", "holder">>)
    IN IF ~IsOk(vp_holder.res) THEN vp_holder.res
       ELSE IF ~model.holder.some THEN Err("Panic", "unwrap on None")
       ELSE IF model.holder.v # vp_holder.val
            THEN Err("Security", "Invalid holder, it does not match")
       ELSE Ok

\* BasicVerifierService::retrieve_vcs : serde_json::from_value::<Vec<String>>
retrieve_vcs(claims) ==
    LET vp == JGet(claims, "vp")
        node == IF vp.some THEN JGet(vp.v, "verifiableCredential") ELSE None
    IN IF node.some /\ node.v.t = "arr"
          /\ \A i \in DOMAIN node.v.a : as_str(node.v.a[i]).some
       THEN [res |-> Ok,
             vcs |-> [i \in DOMAIN node.v.a |->
                         IF node.v.a[i].t = "jwt" THEN node.v.a[i].j ELSE GarbageJwt]]
       ELSE [res |-> Err("Format", "VPT does not contain the 'verifiableCredential' field"),
             vcs |-> << >>]

\* BasicVerifierService::verify_vp : result, the model as the call leaves it,
\* the credentials and the holder handed to verify_all
verify_vp(cfg, n, t, model, vp_token) ==
    With([model EXCEPT !.vpt = Some(vp_token)], LAMBDA m1 :
    With(validate_token(cfg, n, t, vp_token, Some(m1.state)), LAMBDA tk :
        IF ~IsOk(tk.res)
        THEN [res |-> tk.res, model |-> m1, vcs |-> << >>, holder |-> ""]
        ELSE With(validate_nonce(m1, tk.claims), LAMBDA r2 :
        IF ~IsOk(r2)
        THEN [res |-> r2, model |-> m1, vcs |-> << >>, holder |-> tk.kid]
        ELSE With(validate_vp_subject(m1, tk.claims, tk.kid), LAMBDA r3 :
        With(Then(r3.res,
             Then(validate_vp_id(r3.model, tk.claims),
                  validate_holder(r3.model, tk.claims))), LAMBDA r5 :
        IF ~IsOk(r5)
        THEN [res |-> r5, model |-> r3.model, vcs |-> << >>, holder |-> tk.kid]
        ELSE With(retrieve_vcs(tk.claims), LAMBDA r6 :
             [res |-> r6.res, model |-> r3.model, vcs |-> r6.vcs, holder |-> tk.kid]))))))

\* validate_issuer comparing only the `iss` claim with the kid
validate_issuer_iss_only(claims, kid) ==
    LET iss == get_opt_claim(claims, <<"iss">>)
        vc_iss_id == get_claim(claims, <<"vc", "issuer", "id">>)
    IN IF ~IsOk(iss.res) THEN iss.res
       ELSE IF ~IsOk(vc_iss_id.res) THEN vc_iss_id.res
       ELSE check_iss(iss.val, kid)

\* BasicVerifierService::validate_issuer
validate_issuer(claims, kid) ==
    LET iss == get_opt_claim(claims, <<"iss">>)
        vc_iss_id == get_claim(claims, <<"vc", "issuer", "id">>)
    IN IF ~IsOk(iss.res) THEN iss.res
       ELSE IF ~IsOk(vc_iss_id.res) THEN vc_iss_id.res
       ELSE IF ~IsOk(check_iss(iss.val, kid)) THEN check_iss(iss.val, kid)
       ELSE IF vc_iss_id.val # kid
            THEN Err("Security", "VCT token issuer & kid does not match")
       ELSE Ok

\* BasicVerifierService::validate_vc_id
validate_vc_id(claims) ==
    LET vc_id == get_claim(claims, <<"vc", "id">>)
        jti == get_opt_claim(claims, <<"jti">>)
    IN IF ~IsOk(vc_id.res) THEN vc_id.res
       ELSE IF ~IsOk(jti.res) THEN jti.res
       ELSE IF jti.val.some /\ jti.val.v # vc_id.val
            THEN Err("Security", "Invalid id, it does not match")
       ELSE Ok

\* validate_vc_sub comparing only the `sub` claim with the holder
validate_vc_sub_sub_only(claims, holder) ==
    LET sub == get_opt_claim(claims, <<"sub">>)
        cred_sub_id == get_claim(claims, <<"vc", "CredentialSubject", "id">>)
    IN IF ~IsOk(sub.res) THEN sub.res
       ELSE IF ~IsOk(cred_sub_id.res) THEN cred_sub_id.res
       ELSE IF sub.val.some /\ sub.val.v # holder
            THEN Err("Security", "VCT token sub, credential subject & VP Holder do not match")
       ELSE Ok

\* BasicVerifierService::validate_vc_sub
validate_vc_sub(claims, holder) ==
    LET sub == get_opt_claim(claims, <<"sub">>)
        cred_sub_id == get_claim(claims, <<"vc", "CredentialSubject", "id">>)
    IN IF ~IsOk(sub.res) THEN sub.res
       ELSE IF ~IsOk(cred_sub_id.res) THEN cred_sub_id.res
       ELSE IF sub.val.some /\ sub.val.v # holder
            THEN Err("Security", "VCT token sub, credential subject & VP Holder do not match")
       ELSE IF holder # cred_sub_id.val
            THEN Err("Security", "VCT token sub, credential subject & VP Holder do not match")
       ELSE Ok

\* BasicVerifierService::validate_valid_from
validate_valid_from(claims, t) ==
    LET valid_from == get_opt_claim(claims, <<"vc", "validFrom">>)
        date == parse_from_rfc3339(valid_from.val.v)
    IN IF ~IsOk(valid_from.res) THEN valid_from.res
       ELSE IF ~valid_from.val.some THEN Ok
       ELSE IF ~date.some THEN Err("Security", "wrong format for field valid_from")
       ELSE IF date.v > t THEN Err("Security", "VC is not valid yet")
       ELSE Ok

\* validate_valid_until that parses the date but never compares it with the clock
validate_valid_until_never_expires(claims, t) ==
    LET valid_until == get_opt_claim(claims, <<"vc", "validUntil">>)
        date == parse_from_rfc3339(valid_until.val.v)
    IN IF ~IsOk(valid_until.res) THEN valid_until.res
       ELSE IF ~valid_until.val.some THEN Ok
       ELSE IF ~date.some THEN Err("Security", "wrong format for field valid_until")
       ELSE Ok

\* BasicVerifierService::validate_valid_until
validate_valid_until(claims, t) ==
    LET valid_until == get_opt_claim(claims, <<"vc", "validUntil">>)
        date == parse_from_rfc3339(valid_until.val.v)
    IN IF ~IsOk(valid_until.res) THEN valid_until.res
       ELSE IF ~valid_until.val.some THEN Ok
       ELSE IF ~date.some THEN Err("Security", "wrong format for field valid_until")
       ELSE IF t > date.v THEN Err("Security", "VC has expired")
       ELSE Ok

\* BasicVerifierService::verify_vc
verify_vc(cfg, n, t, vc_token, holder) ==
    With(validate_token(cfg, n, t, vc_token, None), LAMBDA tk :
        Then(tk.res,
        Then(validate_issuer(tk.claims, tk.kid),
        Then(validate_vc_id(tk.claims),
        Then(validate_vc_sub(tk.claims, holder),
        Then(validate_valid_from(tk.claims, t),
             validate_valid_until(tk.claims, t)))))))

\* the `for vc in vcs { self.verify_vc(&vc, &holder).await?; }` loop of verify_all
\* from credential i on: its result and how many credentials it examined
RECURSIVE verify_vcs(_, _, _, _, _, _)
verify_vcs(cfg, n, t, vcs, holder, i) ==
    IF i > Len(vcs) THEN [res |-> Ok, examined |-> i - 1]
    ELSE With(verify_vc(cfg, n, t, vcs[i], holder), LAMBDA r :
             IF ~IsOk(r) THEN [res |-> r, examined |-> i]
             ELSE verify_vcs(cfg, n, t, vcs, holder, i + 1))

\* verify_all dropping the result of each verify_vc (no `?` in the loop)
verify_all_ignoring_vcs(cfg, n, t, ver_model, vp_token) ==
    With(verify_vp(cfg, n, t, ver_model, vp_token), LAMBDA vp :
        IF ~IsOk(vp.res)
        THEN [res |-> vp.res, model |-> vp.model, examined |-> 0, vp |-> vp]
        ELSE [res |-> Ok, model |-> vp.model, examined |-> Len(vp.vcs), vp |-> vp])

\* BasicVerifierService::verify_all : result, the model as the call leaves it,
\* the credentials examined, and what verify_vp returned
verify_all(cfg, n, t, ver_model, vp_token) ==
    With(verify_vp(cfg, n, t, ver_model, vp_token), LAMBDA vp :
        IF ~IsOk(vp.res)
        THEN [res |-> vp.res, model |-> vp.model, examined |-> 0, vp |-> vp]
        ELSE With(verify_vcs(cfg, n, t, vp.vcs, vp.holder, 1), LAMBDA lp :
             [res |-> lp.res, model |-> vp.model, examined |-> lp.examined, vp |-> vp]))

\* recv_verification NewModel::to_active : the record a new session is stored as
to_active_verification(new_model, state, nonce) ==
    [id |-> new_model.id, state |-> state, nonce |-> nonce,
     vc_type |-> new_model.vc_type,
     audience |-> new_model.audience \o "/" \o state,
     holder |-> None, vpt |-> None, success |-> None, status |-> "Pending"]

\* start_vp storing the list of the types' Display names
start_vp_display_names(cfg, id) ==
    LET client_id == Cat(Localize(get_host(cfg.host), cfg.is_local) \o <<"/verify">>)
    IN IF cfg.requested_vcs = << >>
       THEN [res |-> Err("Unauthorized", "Unable to verify following oidc4vp"),
             new_model |-> [id |-> id, audience |-> "", vc_type |-> ""]]
       ELSE [res |-> Ok,
             new_model |-> [id |-> id, audience |-> client_id,
                            vc_type |-> "[" \o JoinComma(
                                [i \in DOMAIN cfg.requested_vcs |->
                                    "\"" \o vc_type_to_string(cfg.requested_vcs[i]) \o "\""])
                                \o "]"]]

\* BasicVerifierService::start_vp
start_vp(cfg, id) ==
    LET client_id == Cat(Localize(get_host(cfg.host), cfg.is_local) \o <<"/verify">>)
    IN IF cfg.requested_vcs = << >>
       THEN [res |-> Err("Unauthorized", "Unable to verify following oidc4vp"),
             new_model |-> [id |-> id, audience |-> "", vc_type |-> ""]]
       ELSE [res |-> Ok,
             new_model |-> [id |-> id, audience |-> client_id,
                            vc_type |-> vc_types_to_string(cfg.requested_vcs)]]

(***************************************************************************)
(* Presented tokens.  A presentation is described by who presents it, how  *)
(* many credentials it carries and at most one deviation <<site, alt>>:    *)
(* the site <<0, g>> is a group of fields of the VP token that one check   *)
(* reads, <<i, g>> such a group of its i-th credential, and alt the pair   *)
(* of symbols the group's fields take; every other field has the value a   *)
(* valid token for the session has.  BuildVp turns the description into    *)
(* the JWT.                                                                *)
(***************************************************************************)
HolderIds ==
    { [kid |-> Cat(DidHolderA), base |-> Cat(DidHolderA), key |-> "keyA"],
      [kid |-> Cat(DidHolderAFrag), base |-> Cat(DidHolderA), key |-> "keyA"],
      [kid |-> Cat(DidWeb), base |-> Cat(DidWebNoFrag), key |-> "keyW1"] }
IssuerId == [kid |-> Cat(DidIssuer), base |-> Cat(DidIssuer), key |-> "keyI"]

Good == <<"good", "good">>
One(S) == { <<a, "good">> : a \in S }
Two(S, T) == One(S) \cup { <<"good", b>> : b \in T } \cup { <<a, a>> : a \in S \cap T }

VpAlts ==
    [ wf |-> One({"garbage"}),
      kid |-> One({"none", "badjwk", "nofrag", "otherkey", "method"}),
      signer |-> One({"other"}),
      aud |-> One({"stored", "absent", "other"}),
      nonce |-> One({"other", "absent", "nonstr"}),
      subject |-> Two({"other", "absent"}, {"other", "absent"}),
      nbf |-> One({"future"}),
      exp |-> One({"past"}),
      vpid |-> One({"other", "absent"}),
      holder |-> One({"other", "absent", "nonstr"}),
      shape |-> One({"absent", "malformed"}) ]

VcAlts ==
    [ kid |-> One({"none", "method", "frag"}),
      signer |-> One({"other"}),
      issuer |-> Two({"other", "absent"}, {"other", "absent"}),
      jti |-> One({"other", "absent"}),
      subject |-> Two({"other", "absent"}, {"other", "absent"}),
      validity |-> { <<"future", "good">>, <<"absent", "good">>, <<"bad", "good">>,
                     <<"good", "past">>, <<"good", "absent">>, <<"good", "bad">>,
                     <<"future", "past">>, <<"absent", "absent">> },
      layout |-> One({"v2"}) ]

\* the deviations a presentation of n credentials can have
Deviations(n) ==
    UNION { { <<(<<0, g>>), a>> : a \in VpAlts[g] } : g \in DOMAIN VpAlts }
    \cup UNION { UNION { { <<(<<i, g>>), a>> : a \in VcAlts[g] } : g \in DOMAIN VcAlts }
                 : i \in 1..n }

\* the leading deviation of each site: the second deviation of a pair is one of these
VpLead ==
    [ wf |-> <<"garbage", "good">>, kid |-> <<"none", "good">>,
      signer |-> <<"other", "good">>, aud |-> <<"other", "good">>,
      nonce |-> <<"other", "good">>, subject |-> <<"other", "good">>,
      nbf |-> <<"future", "good">>, exp |-> <<"past", "good">>,
      vpid |-> <<"absent", "good">>, holder |-> <<"other", "good">>,
      shape |-> <<"malformed", "good">> ]

VcLead ==
    [ kid |-> <<"none", "good">>, signer |-> <<"other", "good">>,
      issuer |-> <<"good", "other">>, jti |-> <<"other", "good">>,
      subject |-> <<"good", "other">>, validity |-> <<"good", "past">> ]

LeadDeviations(n) ==
    { <<(<<0, g>>), VpLead[g]>> : g \in DOMAIN VpLead }
    \cup { <<(<<i, g>>), VcLead[g]>> : i \in 1..n, g \in DOMAIN VcLead }

\* two deviations at different sites of the VP token
VpDeviationPairs ==
    { D \in { {p, q} : p \in Deviations(0), q \in LeadDeviations(0) } :
        \E p \in D : \E q \in D : p[1] # q[1] }

\* two deviations at different sites of the n credentials
VcDeviationPairs(n) ==
    { D \in { {p, q} : p \in Deviations(n) \ Deviations(0),
                       q \in LeadDeviations(n) \ LeadDeviations(0) } :
        \E p \in D : \E q \in D : p[1] # q[1] }

\* the holder whose descriptions may carry two deviations
PairHolder == CHOOSE h \in HolderIds : h.kid # h.base /\ h.key = "keyA"

VpSpecs ==
    UNION { { [h |-> h, n |-> n, dev |-> D] :
                h \in HolderIds,
                D \in {{}} \cup { {p} : p \in Deviations(n) } }
            : n \in 0..MaxVcs }
    \cup
    { [h |-> PairHolder, n |-> 1, dev |-> D] : D \in VpDeviationPairs }
    \cup
    UNION { { [h |-> PairHolder, n |-> n, dev |-> D] : D \in VcDeviationPairs(n) }
            : n \in 1..MaxVcs }

\* the symbols a description gives a site
Sym(dev, site) ==
    IF \E p \in dev : p[1] = site THEN (CHOOSE p \in dev : p[1] = site)[2] ELSE Good

\* the object with key |-> val when present, the empty object otherwise
Field(key, present, val) == IF present THEN key :> val ELSE << >>

OtherDid == Cat(DidHolderB)
DidClaim(sym, good) ==
    CASE sym = "good" -> JStr(good)
      [] sym = "nonstr" -> JNum(7)
      [] OTHER -> JStr(OtherDid)

BuildKid(id, sym) ==
    CASE sym = "good" -> Some(id.kid)
      [] sym = "none" -> None
      [] sym = "frag" -> Some(Cat(Pieces(id.base) \o <<"#", "0">>))
      [] sym = "badjwk" -> Some(Cat(DidBadJwk))
      [] sym = "nofrag" -> Some(Cat(DidWebNoFrag))
      [] sym = "otherkey" -> Some(Cat(DidWebOtherKey))
      [] sym = "method" -> Some(Cat(DidKey))

\* the credential proper of the i-th credential (VCClaimsV1.vc / VCClaimsV2)
BuildVcBody(issuer, credsub, from, until, holder) ==
    Field("issuer", issuer # "absent", JObj("id" :> DidClaim(issuer, IssuerId.base)))
    @@ ("id" :> JStr("urn:vc:1"))
    @@ ("type" :> JStr("LegalPerson"))
    @@ Field("CredentialSubject", credsub # "absent",
             JObj("id" :> DidClaim(credsub, holder)))
    @@ Field("validFrom", from # "absent",
             JStr(CASE from = "good" -> DateStr(0)
                    [] from = "future" -> DateStr(MaxTime)
                    [] OTHER -> "yesterday"))
    @@ Field("validUntil", until # "absent",
             JStr(CASE until = "good" -> DateStr(MaxTime)
                    [] until = "past" -> DateStr(0)
                    [] OTHER -> "tomorrow"))

\* the i-th credential of the presentation
BuildVc(spec, i) ==
    [wf |-> TRUE,
     kid |-> BuildKid(IssuerId, Sym(spec.dev, <<i, "kid">>)[1]),
     signer |-> IF Sym(spec.dev, <<i, "signer">>) = Good THEN IssuerId.key ELSE "keyM",
     claims |-> JObj(
         Field("iss", Sym(spec.dev, <<i, "issuer">>)[1] # "absent",
               DidClaim(Sym(spec.dev, <<i, "issuer">>)[1], IssuerId.base))
         @@ Field("sub", Sym(spec.dev, <<i, "subject">>)[1] # "absent",
                  DidClaim(Sym(spec.dev, <<i, "subject">>)[1], spec.h.base))
         @@ Field("jti", Sym(spec.dev, <<i, "jti">>)[1] # "absent",
                  JStr(IF Sym(spec.dev, <<i, "jti">>) = Good THEN "urn:vc:1"
                       ELSE "urn:vc:2"))
         @@ With(BuildVcBody(Sym(spec.dev, <<i, "issuer">>)[2],
                             Sym(spec.dev, <<i, "subject">>)[2],
                             Sym(spec.dev, <<i, "validity">>)[1],
                             Sym(spec.dev, <<i, "validity">>)[2],
                             spec.h.base), LAMBDA body :
                \* W3C data model V1 nests the credential under `vc`, V2 is flat
                IF Sym(spec.dev, <<i, "layout">>) = Good
                THEN "vc" :> JObj(body)
                ELSE body))]

\* the `vp` object of the presentation
BuildVpBody(sess, spec, vpid, holder, shape) ==
    Field("id", vpid # "absent", JStr(IF vpid = "good" THEN sess.id ELSE "other-id"))
    @@ Field("holder", holder # "absent", DidClaim(holder, spec.h.base))
    @@ Field("verifiableCredential", shape # "absent",
             IF shape = "good"
             THEN JArr([i \in 1..spec.n |-> JJwt(BuildVc(spec, i))])
             ELSE JNum(0))

\* the VP token the description stands for, presented to session sess
BuildVp(cfg, sess, spec) ==
    IF Sym(spec.dev, <<0, "wf">>) # Good THEN GarbageJwt
    ELSE
    [wf |-> TRUE,
     kid |-> BuildKid(spec.h, Sym(spec.dev, <<0, "kid">>)[1]),
     signer |-> IF Sym(spec.dev, <<0, "signer">>) = Good THEN spec.h.key ELSE "keyM",
     claims |-> JObj(
         With(Sym(spec.dev, <<0, "aud">>)[1], LAMBDA aud :
             Field("aud", aud # "absent",
                   JStr(CASE aud = "good" -> VerifierAudience(cfg, sess.state)
                          [] aud = "stored" -> sess.audience
                          [] OTHER -> "https://elsewhere.example/verify")))
         @@ With(Sym(spec.dev, <<0, "nonce">>)[1], LAMBDA nonce :
             Field("nonce", nonce # "absent",
                   CASE nonce = "good" -> JStr(sess.nonce)
                     [] nonce = "other" -> JStr("n0")
                     [] OTHER -> JNum(7)))
         @@ With(Sym(spec.dev, <<0, "subject">>), LAMBDA sj :
             Field("sub", sj[1] # "absent", DidClaim(sj[1], spec.h.base))
             @@ Field("iss", sj[2] # "absent", DidClaim(sj[2], spec.h.base)))
         @@ Field("nbf", Sym(spec.dev, <<0, "nbf">>) # Good, JNum(MaxTime))
         @@ ("exp" :> JNum(IF Sym(spec.dev, <<0, "exp">>) = Good THEN MaxTime ELSE 0))
         @@ ("vp" :> JObj(BuildVpBody(sess, spec,
                                      Sym(spec.dev, <<0, "vpid">>)[1],
                                      Sym(spec.dev, <<0, "holder">>)[1],
                                      Sym(spec.dev, <<0, "shape">>)[1]))))]

(***************************************************************************)
(* The verifier's state machine                                            *)
(***************************************************************************)
\* the (state, nonce) pairs NewModel::to_active can draw
SessionRandom == { <<"s1", "n1">>, <<"s2", "n2">> }

Idle == [op |-> "none", res |-> Ok]

\* the deployments followed: every configuration with the holder's DID document
\* as signed, and the first with the document after a key rotation
VerifierDeployments ==
    { [cfg |-> c, net |-> DocV1] : c \in VerifierConfigs }
    \cup { [cfg |-> c, net |-> DocV2] : c \in { c \in VerifierConfigs : c.is_local /\ c.requested_vcs # << >> } }

Init ==
    /\ now = 0
    /\ \E d \in VerifierDeployments : vcfg = d.cfg /\ net = d.net
    /\ vsess = None
    /\ vres = Idle
    /\ icfg = None
    /\ isess = None
    /\ ires = Idle

\* a call can still be made on the deployed service
CallPending ==
    IF vcfg # None
    THEN IF vsess.some THEN ~vsess.v.vpt.some ELSE TRUE
    ELSE ires.op # "validate_cred_req"

\* Utc::now() advances; the clock is followed while a call can still be made
Tick ==
    /\ now < MaxTime
    /\ CallPending
    /\ now' = now + 1
    /\ UNCHANGED <<net, vcfg, vsess, vres, icfg, isess, ires>>

\* start_vp followed by the insertion of the new record
StartVp ==
    /\ vcfg # None
    /\ ~vsess.some
    /\ vres.op = "none"
    /\ \E rnd \in SessionRandom :
          With(start_vp(vcfg, "vp-1"), LAMBDA r :
              /\ vsess' = IF IsOk(r.res)
                          THEN Some(to_active_verification(r.new_model, rnd[1], rnd[2]))
                          ELSE vsess
              /\ vres' = [op |-> "start_vp", res |-> r.res])
    /\ UNCHANGED <<now, net, vcfg, icfg, isess, ires>>

\* verify_all on a session that has received no presentation yet
VerifyAll ==
    /\ vsess.some
    /\ ~vsess.v.vpt.some
    /\ \E spec \in VpSpecs :
          With(BuildVp(vcfg, vsess.v, spec), LAMBDA tok :
          With(verify_all(vcfg, net, now, vsess.v, tok), LAMBDA r :
              /\ vsess' = Some(r.model)
              /\ vres' = [op |-> "verify_all", res |-> r.res, examined |-> r.examined,
                          token |-> tok, pre |-> vsess.v, vp |-> r.vp.res,
                          vcs |-> r.vp.vcs, kid |-> r.vp.holder, at |-> now]))
    /\ UNCHANGED <<now, net, vcfg, icfg, isess, ires>>

\* the tokens presented to a session that already holds one: the held token
\* again, and a valid presentation of one credential
LaterTokens(cfg, sess) ==
    {sess.vpt.v, BuildVp(cfg, sess, [h |-> PairHolder, n |-> 1, dev |-> {}])}

\* verify_all on a session that has already received a presentation
VerifyAgain ==
    /\ vsess.some
    /\ vsess.v.vpt.some
    /\ \E tok \in LaterTokens(vcfg, vsess.v) :
          With(verify_all(vcfg, net, now, vsess.v, tok), LAMBDA r :
              /\ vsess' = Some(r.model)
              /\ vres' = [op |-> "verify_all", res |-> r.res, examined |-> r.examined,
                          token |-> tok, pre |-> vsess.v, vp |-> r.vp.res,
                          vcs |-> r.vp.vcs, kid |-> r.vp.holder, at |-> now])
    /\ UNCHANGED <<now, net, vcfg, icfg, isess, ires>>

\* one presentation per session; later presentations are followed in ServicesSpec
Next == Tick \/ StartVp \/ VerifyAll

Spec == Init /\ [][Next]_vars

(***************************************************************************)
(* Credential issuer                                                       *)
(***************************************************************************)
IssuerConfigs ==
    { [host |-> LoopbackHost, is_local |-> TRUE, api_path |-> "/api/v1",
       did |-> Cat(DidIssuer)],
      [host |-> PublicHost, is_local |-> FALSE, api_path |-> "",
       did |-> Cat(DidIssuer)],
      [host |-> LoopbackHost, is_local |-> FALSE, api_path |-> "/api/v1",
       did |-> Cat(DidIssuer)] }

\* the deployments followed: every configuration with the holders' DID document
\* as signed, and the first with the document after a key rotation
IssuerDeployments ==
    { [cfg |-> c, net |-> DocV1] : c \in IssuerConfigs }
    \cup { [cfg |-> c, net |-> DocV2] :
              c \in { c \in IssuerConfigs : c.is_local } }

\* BasicIssuerService::start_vci
start_vci(cfg, req) ==
    [id |-> req.id, name |-> req.participant_slug, vc_type |-> req.vc_type,
     aud |-> Cat(Localize(get_host(cfg.host) \o <<cfg.api_path, "/issuer">>,
                          cfg.is_local))]

\* issuing::NewModel::to_active with the values create_opaque_token and Uuid::new_v4 drew
to_active_issuing(new_model, code, tx_code, token, credential_id) ==
    [id |-> new_model.id, name |-> new_model.name,
     pre_auth_code |-> code, tx_code |-> tx_code, step |-> TRUE,
     vc_type |-> new_model.vc_type, uri |-> None, token |-> token,
     aud |-> new_model.aud, holder_did |-> None, issuer_did |-> None,
     credential_id |-> credential_id, credential |-> None,
     credential_data |-> None]

\* VCCredOffer::new : the offer for one credential type
VCCredOffer_new(issuer, token, vc_type) ==
    [credential_issuer |-> issuer,
     grants |-> [urn_pre_authorized_code |-> [pre_authorized_code |-> token]],
     credential_configuration_ids |-> <<to_conf(vc_type)>>]

\* get_cred_offer_data that always offers the pre-authorized code
get_cred_offer_data_always_pre_auth(cfg, model) ==
    LET issuer == Cat(Localize(get_host(cfg.host) \o <<cfg.api_path, "/issuer">>,
                               cfg.is_local))
        vc_type == vc_type_from_str(model.vc_type)
    IN IF ~vc_type.some
       THEN [res |-> Err("Parse", "Unknown credential format"), offer |-> None]
       ELSE [res |-> Ok,
             offer |-> Some(VCCredOffer_new(issuer, model.pre_auth_code, vc_type.v))]

\* BasicIssuerService::get_cred_offer_data
get_cred_offer_data(cfg, model) ==
    LET issuer == Cat(Localize(get_host(cfg.host) \o <<cfg.api_path, "/issuer">>,
                               cfg.is_local))
        vc_type == vc_type_from_str(model.vc_type)
    IN IF ~vc_type.some
       THEN [res |-> Err("Parse", "Unknown credential format"), offer |-> None]
       ELSE [res |-> Ok,
             offer |-> Some(IF model.step
                            THEN VCCredOffer_new(issuer, model.tx_code, vc_type.v)
                            ELSE VCCredOffer_new(issuer, model.pre_auth_code, vc_type.v))]

\* IssuerMetadata::new: the fields built from base_host, the one string the
\* service passes (the endpoints are built from a second argument, host_path)
IssuerMetadata_new(base_host) ==
    [issuer |-> base_host, credential_issuer |-> base_host,
     authorization_servers |-> <<base_host>>]

\* AuthServerMetadata::new
AuthServerMetadata_new(host) ==
    [issuer |-> host, credential_issuer |-> host,
     credential_endpoint |-> host \o "/credential",
     authorization_endpoint |-> host \o "/authorize",
     pushed_authorization_request_endpoint |-> host \o "/par",
     token_endpoint |-> host \o "/token",
     jwks_uri |-> host \o "/jwks",
     batch_credential_endpoint |-> host \o "/batch_credential",
     deferred_credential_endpoint |-> host \o "/credential_deferred",
     authorization_servers |-> <<host>>]

\* BasicIssuerService::get_issuer_data
get_issuer_data(cfg) ==
    IssuerMetadata_new(
        Cat(Localize(get_host(cfg.host) \o <<cfg.api_path, "/issuer">>, cfg.is_local)))

\* get_oauth_server_data without the local-mode replacement
get_oauth_server_data_unlocalized(cfg) ==
    AuthServerMetadata_new(Cat(get_host(cfg.host) \o <<cfg.api_path, "/issuer">>))

\* BasicIssuerService::get_oauth_server_data
get_oauth_server_data(cfg) ==
    AuthServerMetadata_new(
        Cat(Localize(get_host(cfg.host) \o <<cfg.api_path, "/issuer">>, cfg.is_local)))

\* BasicIssuerService::validate_token_req
validate_token_req(model, payload) ==
    IF payload.tx_code.some /\ model.tx_code # payload.tx_code.v
    THEN Err("Forbidden", "tx_code does not match")
    ELSE IF model.pre_auth_code # payload.pre_authorized_code
    THEN Err("Forbidden", "pre_auth_code does not match")
    ELSE Ok

\* serde deserialization of the claim set into DidPossession: iss, sub and aud
\* are strings, iat and exp unsigned integers
DidPossession(claims) ==
    /\ \A k \in {"iss", "sub", "aud"} :
          JGet(claims, k).some /\ JGet(claims, k).v.t = "str"
    /\ \A k \in {"iat", "exp"} :
          JGet(claims, k).some /\ JGet(claims, k).v.t = "num"

\* utils::get_from_opt
get_from_opt(value, field_name) ==
    IF value.some THEN Ok ELSE Err("Unauthorized", "Missing field: " \o field_name)

\* utils::validate_token that never constrains the audience
utils_validate_token_any_aud(n, t, tok, audience) ==
    IF ~tok.wf THEN [res |-> Err("Raw", "InvalidToken"), claims |-> EmptyObj, kid |-> ""]
    ELSE IF ~IsOk(get_from_opt(tok.kid, "kid"))
    THEN [res |-> get_from_opt(tok.kid, "kid"), claims |-> EmptyObj, kid |-> ""]
    ELSE With(get_key(tok.kid.v, n), LAMBDA k :
         IF ~IsOk(k.res) THEN [res |-> k.res, claims |-> EmptyObj, kid |-> ""]
         ELSE IF ~(jwt_decode(tok, k.key, None, t) /\ DidPossession(tok.claims))
         THEN [res |-> Err("Security", "VPT signature is incorrect"),
               claims |-> EmptyObj, kid |-> ""]
         ELSE [res |-> Ok, claims |-> tok.claims, kid |-> split_did_id(tok.kid.v).base])

\* utils::validate_token::<DidPossession>
utils_validate_token(n, t, tok, audience) ==
    IF ~tok.wf THEN [res |-> Err("Raw", "InvalidToken"), claims |-> EmptyObj, kid |-> ""]
    ELSE IF ~IsOk(get_from_opt(tok.kid, "kid"))
    THEN [res |-> get_from_opt(tok.kid, "kid"), claims |-> EmptyObj, kid |-> ""]
    ELSE With(get_key(tok.kid.v, n), LAMBDA k :
         IF ~IsOk(k.res) THEN [res |-> k.res, claims |-> EmptyObj, kid |-> ""]
         ELSE IF ~(jwt_decode(tok, k.key, audience, t) /\ DidPossession(tok.claims))
         THEN [res |-> Err("Security", "VPT signature is incorrect"),
               claims |-> EmptyObj, kid |-> ""]
         ELSE [res |-> Ok, claims |-> tok.claims, kid |-> split_did_id(tok.kid.v).base])

\* utils::is_active
is_active(iat, t) ==
    IF t >= iat THEN Ok ELSE Err("Forbidden", "Token is not yet valid")

\* utils::has_expired
has_expired(exp, t) ==
    IF t <= exp THEN Ok ELSE Err("Forbidden", "Token has expired")

\* BasicIssuerService::validate_did_possession
validate_did_possession(claims, kid) ==
    IF JGet(claims, "iss").v.s # JGet(claims, "sub").v.s
       /\ JGet(claims, "sub").v.s # kid
    THEN Err("Forbidden", "Invalid proof of did possession")
    ELSE Ok

\* validate_cred_req comparing the bearer token after the format checks
validate_cred_req_token_last(cfg, n, t, model, cred_req, token) ==
    IF cred_req.format # "jwt_vc_json"
    THEN [res |-> Err("Format", "Cannot issue a credentia with format"), model |-> model]
    ELSE IF cred_req.proof.proof_type # "jwt"
    THEN [res |-> Err("Format", "Cannot validate proof with type"), model |-> model]
    ELSE IF model.token # token
    THEN [res |-> Err("Forbidden", "tx_code does not match"), model |-> model]
    ELSE With(utils_validate_token(n, t, cred_req.proof.jwt, Some(model.aud)), LAMBDA tk :
         IF ~IsOk(tk.res) THEN [res |-> tk.res, model |-> model]
         ELSE IF ~IsOk(validate_did_possession(tk.claims, tk.kid))
         THEN [res |-> validate_did_possession(tk.claims, tk.kid), model |-> model]
         ELSE [res |-> Then(is_active(JGet(tk.claims, "iat").v.n, t),
                            has_expired(JGet(tk.claims, "exp").v.n, t)),
               model |-> [model EXCEPT !.holder_did = Some(tk.kid),
                                       !.issuer_did = Some(cfg.did)]])

\* BasicIssuerService::validate_cred_req; model is the session after the call
validate_cred_req(cfg, n, t, model, cred_req, token) ==
    IF model.token # token
    THEN [res |-> Err("Forbidden", "tx_code does not match"), model |-> model]
    ELSE IF cred_req.format # "jwt_vc_json"
    THEN [res |-> Err("Format", "Cannot issue a credentia with format"), model |-> model]
    ELSE IF cred_req.proof.proof_type # "jwt"
    THEN [res |-> Err("Format", "Cannot validate proof with type"), model |-> model]
    ELSE With(utils_validate_token(n, t, cred_req.proof.jwt, Some(model.aud)), LAMBDA tk :
         IF ~IsOk(tk.res) THEN [res |-> tk.res, model |-> model]
         ELSE IF ~IsOk(validate_did_possession(tk.claims, tk.kid))
         THEN [res |-> validate_did_possession(tk.claims, tk.kid), model |-> model]
         ELSE [res |-> Then(is_active(JGet(tk.claims, "iat").v.n, t),
                            has_expired(JGet(tk.claims, "exp").v.n, t)),
               model |-> [model EXCEPT !.holder_did = Some(tk.kid),
                                       !.issuer_did = Some(cfg.did)]])

(***************************************************************************)
(* Requests to the issuer.  A proof of possession is described by who      *)
(* signs it, at most one deviation <<site, alt>> of its header, signature  *)
(* or claim set, and the values of iss, sub, iat and exp.                  *)
(***************************************************************************)
ProofAlts ==
    [ wf |-> One({"garbage"}),
      kid |-> One({"none", "badjwk", "otherkey", "method"}),
      signer |-> One({"other"}),
      aud |-> One({"other", "slash", "absent"}),
      iss |-> One({"absent"}),
      sub |-> One({"absent"}),
      iat |-> One({"absent"}) ]

ProofDeviations == UNION { { <<g, a>> : a \in ProofAlts[g] } : g \in DOMAIN ProofAlts }

DidSyms == {"kid", "full", "other"}

ProofSpecs ==
    { [h |-> h, dev |-> {}, iss |-> i, sub |-> u, iat |-> a, exp |-> e] :
        h \in HolderIds, i \in DidSyms, u \in DidSyms, a \in 0..MaxTime, e \in 0..MaxTime }
    \cup
    { [h |-> h, dev |-> {d}, iss |-> "kid", sub |-> "kid", iat |-> 0, exp |-> MaxTime] :
        h \in HolderIds, d \in ProofDeviations }

\* the DID a symbol stands for in a proof signed by id
DidOf(id, sym) ==
    CASE sym = "kid" -> id.base
      [] sym = "full" -> id.kid
      [] OTHER -> OtherDid

\* the proof JWT the description stands for, addressed to session sess
BuildProof(sess, spec) ==
    IF Sym(spec.dev, "wf")[1] # "good" THEN GarbageJwt
    ELSE
    [wf |-> TRUE,
     kid |-> BuildKid(spec.h, Sym(spec.dev, "kid")[1]),
     signer |-> IF Sym(spec.dev, "signer")[1] = "good" THEN spec.h.key ELSE "keyM",
     claims |-> JObj(
         With(Sym(spec.dev, "aud")[1], LAMBDA aud :
             Field("aud", aud # "absent",
                   JStr(CASE aud = "good" -> sess.aud
                          [] aud = "slash" -> sess.aud \o "/"
                          [] OTHER -> "https://elsewhere.example/issuer")))
         @@ Field("iss", Sym(spec.dev, "iss")[1] = "good", JStr(DidOf(spec.h, spec.iss)))
         @@ Field("sub", Sym(spec.dev, "sub")[1] = "good", JStr(DidOf(spec.h, spec.sub)))
         @@ Field("iat", Sym(spec.dev, "iat")[1] = "good", JNum(spec.iat))
         @@ ("exp" :> JNum(spec.exp)))]

\* the credential requests and bearer tokens presented to session sess
CredReqs(sess) ==
    { [bearer |-> b,
       cred_req |-> [format |-> f,
                     proof |-> [proof_type |-> pt, jwt |-> BuildProof(sess, spec)]]] :
        b \in {sess.token, "stale-token"},
        f \in {"jwt_vc_json", "ldp_vc"},
        pt \in {"jwt", "cwt"},
        spec \in ProofSpecs }

\* the token requests presented to session sess
TokenReqs(sess) ==
    { [tx_code |-> x, pre_authorized_code |-> c] :
        x \in {None, Some(sess.tx_code), Some("wrong-code")},
        c \in {sess.pre_auth_code, sess.tx_code, "wrong-code"} }

(***************************************************************************)
(* The issuer's state machine                                              *)
(***************************************************************************)
\* the (pre_auth_code, tx_code, token, credential_id) NewModel::to_active can
\* draw; collisions of the 256-bit random values are left out
IssuingRandom == { <<"c1", "x1", "k1", "u1">>, <<"c2", "x2", "k2", "u2">> }

VcRequest == [id |-> "iss-1", participant_slug |-> "acme", vc_type |-> "LegalPerson"]

IssuerInit ==
    /\ now = 0
    /\ \E d \in IssuerDeployments : icfg = d.cfg /\ net = d.net
    /\ vcfg = None
    /\ vsess = None
    /\ vres = Idle
    /\ isess = None
    /\ ires = Idle

\* get_issuer_data, asked of the deployed service before any session exists
GetIssuerData ==
    /\ icfg # None
    /\ ires.op = "none"
    /\ ires' = [op |-> "get_issuer_data", res |-> Ok, data |-> get_issuer_data(icfg)]
    /\ UNCHANGED <<now, net, vcfg, vsess, vres, icfg, isess>>

\* get_oauth_server_data, asked of the deployed service before any session exists
GetOauthServerData ==
    /\ icfg # None
    /\ ires.op \in {"none", "get_issuer_data"}
    /\ ires' = [op |-> "get_oauth_server_data", res |-> Ok,
                data |-> get_oauth_server_data(icfg)]
    /\ UNCHANGED <<now, net, vcfg, vsess, vres, icfg, isess>>

\* start_vci followed by the insertion of the new record
StartVci ==
    /\ icfg # None
    /\ ~isess.some
    /\ \E rnd \in IssuingRandom :
          isess' = Some(to_active_issuing(start_vci(icfg, VcRequest),
                                          rnd[1], rnd[2], rnd[3], rnd[4]))
    /\ ires' = [op |-> "start_vci", res |-> Ok]
    /\ UNCHANGED <<now, net, vcfg, vsess, vres, icfg>>

\* the records get_cred_offer_data is handed for the session: the stored one,
\* and the same record of a one-phase flow (step is a plain column of the row)
OfferedModels(sess) == { [sess EXCEPT !.step = step] : step \in BOOLEAN }

\* get_cred_offer_data for the session just created
GetCredOfferData ==
    /\ isess.some
    /\ ires.op = "start_vci"
    /\ \E model \in OfferedModels(isess.v) :
          With(get_cred_offer_data(icfg, model), LAMBDA r :
              ires' = [op |-> "get_cred_offer_data", res |-> r.res, offer |-> r.offer,
                       model |-> model, at |-> now])
    /\ UNCHANGED <<now, net, vcfg, vsess, vres, icfg, isess>>

\* the token request the session granted in the call just before, if any
Granted ==
    IF ires.op = "validate_token_req"
    THEN IF IsOk(ires.res) THEN Some(ires.payload) ELSE None
    ELSE None

\* validate_token_req on an offered session, before any credential request
ValidateTokenReq ==
    /\ isess.some
    /\ ires.op \in {"start_vci", "get_cred_offer_data", "validate_token_req"}
    /\ \E payload \in TokenReqs(isess.v) :
          ires' = [op |-> "validate_token_req",
                   res |-> validate_token_req(isess.v, payload),
                   payload |-> payload, pre |-> isess.v, at |-> now,
                   granted |-> Granted]
    /\ UNCHANGED <<now, net, vcfg, vsess, vres, icfg, isess>>

\* validate_cred_req, presented at once or after a granted token request
ValidateCredReq ==
    /\ isess.some
    /\ IF ires.op = "validate_token_req" THEN IsOk(ires.res) ELSE ires.op = "start_vci"
    /\ \E rq \in CredReqs(isess.v) :
          With(validate_cred_req(icfg, net, now, isess.v, rq.cred_req, rq.bearer),
               LAMBDA r :
              /\ isess' = Some(r.model)
              /\ ires' = [op |-> "validate_cred_req", res |-> r.res,
                          cred_req |-> rq.cred_req, bearer |-> rq.bearer,
                          pre |-> isess.v, at |-> now])
    /\ UNCHANGED <<now, net, vcfg, vsess, vres, icfg>>

IssuerNext ==
    \/ Tick
    \/ GetIssuerData
    \/ GetOauthServerData
    \/ StartVci
    \/ GetCredOfferData
    \/ ValidateTokenReq
    \/ ValidateCredReq

IssuerSpec == IssuerInit /\ [][IssuerNext]_vars

(***************************************************************************)
(* The DID resolver on its own: get_key for each DID against each          *)
(* document the did:web host can serve                                     *)
(***************************************************************************)
ResolvedDids == { Cat(p) : p \in DidPieces }

ResolverInit ==
    /\ now = 0
    /\ net \in NetDocs
    /\ vcfg = None
    /\ vsess = None
    /\ vres = Idle
    /\ icfg = None
    /\ isess = None
    /\ ires = Idle

\* get_key ; prev is what the call before it returned when it was for the same DID
GetKey ==
    /\ \E did \in ResolvedDids :
          With(get_key(did, net), LAMBDA r :
              vres' = [op |-> "get_key", res |-> r.res, key |-> r.key, did |-> did,
                       fetched |-> r.fetched,
                       prev |-> IF vres.op = "get_key"
                                THEN IF vres.did = did
                                     THEN Some([res |-> vres.res, key |-> vres.key])
                                     ELSE None
                                ELSE None])
    /\ UNCHANGED <<now, net, vcfg, vsess, icfg, isess, ires>>

ResolverNext == GetKey

ResolverSpec == ResolverInit /\ [][ResolverNext]_vars

\* the host of the did:web document starts to answer with another document
Rotate ==
    /\ \E doc \in NetDocs : doc # net /\ net' = doc
    /\ UNCHANGED <<now, vcfg, vsess, vres, icfg, isess, ires>>

RotationNext == GetKey \/ Rotate

\* get_key called again and again while the hosted document changes
RotationSpec == ResolverInit /\ [][RotationNext]_vars

(***************************************************************************)
(* Both services: a deployment of either, with all their operations        *)
(***************************************************************************)
ServicesInit == Init \/ IssuerInit

ServicesNext ==
    \/ Tick
    \/ StartVp
    \/ VerifyAll
    \/ VerifyAgain
    \/ GetIssuerData
    \/ GetOauthServerData
    \/ StartVci
    \/ GetCredOfferData
    \/ ValidateTokenReq
    \/ ValidateCredReq

ServicesSpec == ServicesInit /\ [][ServicesNext]_vars

(***************************************************************************)
(* Properties of the verifier (checked under Spec)                         *)
(***************************************************************************)
\* the credentials the presented token's vp.verifiableCredential array holds
CarriedVcs(tok) ==
    LET vp == JGet(tok.claims, "vp")
        node == IF vp.some THEN JGet(vp.v, "verifiableCredential") ELSE None
    IN IF node.some /\ node.v.t = "arr"
       THEN [i \in DOMAIN node.v.a |->
                IF node.v.a[i].t = "jwt" THEN node.v.a[i].j ELSE GarbageJwt]
       ELSE << >>

\* the string claim at a path of a token, if it is there
ClaimAt(tok, path) ==
    LET c == get_claim(tok.claims, path)
    IN IF IsOk(c.res) THEN Some(c.val) ELSE None

\* the key the kid of a token resolves to is the key that signed it
SignedByKid(tok) ==
    /\ tok.wf
    /\ tok.kid.some
    /\ IsOk(get_key(tok.kid.v, net).res)
    /\ get_key(tok.kid.v, net).key = tok.signer

\* the fragment-stripped kid of a token
BaseKid(tok) == split_did_id(tok.kid.v).base

VerifiedAll == vres.op = "verify_all"

\* the presented token passes validate_token for the session: signature and
\* audience are valid
TokenValid ==
    IsOk(validate_token(vcfg, net, vres.at, vres.token, Some(vres.pre.state)).res)

\* C1: verify_all returns success only if the session's holder is the
\* fragment-stripped kid whose resolved key signed the VP token and every
\* credential of vp.verifiableCredential has that holder as its
\* vc.CredentialSubject.id.
C1_SubjectsAreTheHolder ==
    (VerifiedAll /\ IsOk(vres.res)) =>
        /\ SignedByKid(vres.token)
        /\ vsess.v.holder = Some(BaseKid(vres.token))
        /\ \A i \in DOMAIN CarriedVcs(vres.token) :
              ClaimAt(CarriedVcs(vres.token)[i], <<"vc", "CredentialSubject", "id">>)
                  = vsess.v.holder

\* a presentation of MaxVcs credentials, signed under a kid with a fragment, succeeds
C1_Witness ==
    /\ VerifiedAll
    /\ IsOk(vres.res)
    /\ Len(CarriedVcs(vres.token)) = MaxVcs
    /\ vres.token.kid.v # vsess.v.holder.v

\* C2 as stated: a valid token whose nonce claim is anything but the session's
\* nonce gets a Security error.
C2_AnyOtherNonceIsSecurity ==
    (VerifiedAll /\ TokenValid
       /\ JGet(vres.token.claims, "nonce").some
       /\ JGet(vres.token.claims, "nonce").v # JStr(vres.pre.nonce)) =>
        (vres.vp.k = "Security" /\ vres.res.k = "Security")

\* C2 amended: for a token with valid signature and audience, verify_vp and
\* verify_all fail with the Security error "Invalid nonce" when the nonce claim
\* is a string other than session.nonce, and with a Format error when the
\* claim is absent or not a string.
C2_WrongNonceRejected ==
    (VerifiedAll /\ TokenValid) =>
        LET nonce == JGet(vres.token.claims, "nonce")
        IN /\ (nonce.some /\ nonce.v.t = "str" /\ nonce.v.s # vres.pre.nonce) =>
                 /\ vres.vp = Err("Security", "Invalid nonce, it does not match")
                 /\ vres.res = vres.vp
           /\ (~nonce.some \/ nonce.v.t # "str") =>
                 (vres.vp.k = "Format" /\ vres.res.k = "Format")

\* a validly signed and addressed token with another nonce is refused
C2_Witness ==
    /\ VerifiedAll
    /\ TokenValid
    /\ JGet(vres.token.claims, "nonce") = Some(JStr("n0"))
    /\ vres.res.k = "Security"

\* the checks verify_vp makes before validate_holder pass
BeforeHolderOk ==
    /\ TokenValid
    /\ IsOk(validate_nonce(vres.pre, vres.token.claims))
    /\ IsOk(validate_vp_subject(vres.pre, vres.token.claims, BaseKid(vres.token)).res)
    /\ IsOk(validate_vp_id(vres.pre, vres.token.claims))

\* the member of the token's `vp` object under a key, if it is there
VpField(tok, key) ==
    LET vp == JGet(tok.claims, "vp")
    IN IF vp.some THEN JGet(vp.v, key) ELSE None

\* C3 as stated: a token with valid signature and audience whose vp.holder
\* claim differs from the fragment-stripped kid gets a Security error.
C3_AnyOtherHolderIsSecurity ==
    (VerifiedAll /\ TokenValid
       /\ VpField(vres.token, "holder").some
       /\ VpField(vres.token, "holder").v # JStr(BaseKid(vres.token))) =>
        vres.vp.k = "Security"

\* C3 amended: a token whose vp.holder is not the fragment-stripped kid is
\* never accepted by verify_vp; when the earlier checks of verify_vp pass the
\* error is Security "Invalid holder" for a string vp.holder and a Format error
\* for an absent or non-string one, and session.holder is the stripped kid.
C3_WrongHolderRejected ==
    (VerifiedAll /\ vres.token.wf /\ vres.token.kid.some
       /\ ClaimAt(vres.token, <<"vp", "holder">>) # Some(BaseKid(vres.token))) =>
        /\ ~IsOk(vres.vp)
        /\ ~IsOk(vres.res)
        /\ BeforeHolderOk =>
              /\ vsess.v.holder = Some(BaseKid(vres.token))
              /\ vres.vp = IF ClaimAt(vres.token, <<"vp", "holder">>).some
                            THEN Err("Security", "Invalid holder, it does not match")
                            ELSE get_claim(vres.token.claims, <<"vp", "holder">>).res
              /\ ClaimAt(vres.token, <<"vp", "holder">>).some \/ vres.vp.k = "Format"

\* a token passing every earlier check names another holder and is refused
C3_Witness ==
    /\ VerifiedAll
    /\ vres.token.wf
    /\ vres.token.kid.some
    /\ BeforeHolderOk
    /\ ClaimAt(vres.token, <<"vp", "holder">>) = Some(OtherDid)
    /\ vres.token.kid.v # BaseKid(vres.token)
    /\ vres.vp.k = "Security"

\* the least element of a non-empty set of numbers
Least(S) == CHOOSE i \in S : \A j \in S : i <= j

\* C4: verify_all returns success exactly when verify_vp accepts the token and
\* verify_vc accepts every credential it carries; a failure of verify_vp is
\* returned with no credential examined, and the first credential verify_vc
\* refuses gives the result, no later credential being examined.
C4_AllOrNothing ==
    VerifiedAll =>
        LET vp == verify_vp(vcfg, net, vres.at, vres.pre, vres.token)
            bad == { i \in DOMAIN vp.vcs :
                       ~IsOk(verify_vc(vcfg, net, vres.at, vp.vcs[i], vp.holder)) }
        IN /\ IsOk(vres.res) <=> (IsOk(vp.res) /\ bad = {})
           /\ ~IsOk(vp.res) => (vres.res = vp.res /\ vres.examined = 0)
           /\ (IsOk(vp.res) /\ bad = {}) => vres.examined = Len(vp.vcs)
           /\ (IsOk(vp.res) /\ bad # {}) =>
                 /\ vres.examined = Least(bad)
                 /\ vres.res = verify_vc(vcfg, net, vres.at, vp.vcs[Least(bad)], vp.holder)

\* the first of two bad credentials stops the call
C4_Witness ==
    /\ VerifiedAll
    /\ IsOk(vres.vp)
    /\ Len(vres.vcs) >= 2
    /\ vres.examined = 1
    /\ ~IsOk(vres.res)
    /\ ~IsOk(verify_vc(vcfg, net, vres.at, vres.vcs[2], vres.kid))

\* C8: a VP token that verify_vp accepts and that carries a string aud claim
\* carries the session's stored audience, "{verifier base url}/verify/{state}".
C8_RequiredAudienceIsStored ==
    (VerifiedAll /\ IsOk(vres.vp)
       /\ JGet(vres.token.claims, "aud").some
       /\ JGet(vres.token.claims, "aud").v.t = "str") =>
        JGet(vres.token.claims, "aud").v.s = vres.pre.audience

\* C10: a credential verify_vc accepted was signed by the key its kid resolves
\* to and declares as vc.issuer.id the fragment-stripped kid.
C10_IssuerIsSigner ==
    (VerifiedAll /\ IsOk(vres.vp)) =>
        \A i \in DOMAIN vres.vcs :
            (i < vres.examined \/ IsOk(vres.res)) =>
                /\ SignedByKid(vres.vcs[i])
                /\ ClaimAt(vres.vcs[i], <<"vc", "issuer", "id">>)
                     = Some(BaseKid(vres.vcs[i]))

\* an accepted credential signed under a kid with a fragment
C10_Witness ==
    /\ VerifiedAll
    /\ IsOk(vres.res)
    /\ \E i \in DOMAIN vres.vcs :
          /\ vres.vcs[i].kid.v # BaseKid(vres.vcs[i])
          /\ ClaimAt(vres.vcs[i], <<"vc", "issuer", "id">>) = Some(Cat(DidIssuer))

(***************************************************************************)
(* Properties of the issuer (checked under IssuerSpec)                     *)
(***************************************************************************)
CredRequested == ires.op = "validate_cred_req"

\* the proof JWT of the last credential request
Proof == ires.cred_req.proof.jwt

\* C5: validate_cred_req accepts only proofs whose sub and iss both are the
\* proof's own fragment-stripped kid.
C5_ProofNamesItsKid ==
    (CredRequested /\ IsOk(ires.res)) =>
        /\ JGet(Proof.claims, "sub") = Some(JStr(BaseKid(Proof)))
        /\ JGet(Proof.claims, "iss") = Some(JStr(BaseKid(Proof)))

\* C6: on a session with step = true, validate_token_req returns Forbidden for
\* a request whose tx_code is absent or is not session.tx_code.
C6_TxCodeRequired ==
    (ires.op = "validate_token_req" /\ ires.pre.step
       /\ ires.payload.tx_code # Some(ires.pre.tx_code)) =>
        ires.res.k = "Forbidden"

\* C7: validate_cred_req with a bearer token other than session.token returns
\* Forbidden whatever the format and the proof are, and leaves the session as
\* it was.
C7_BearerCheckedFirst ==
    (CredRequested /\ ires.bearer # ires.pre.token) =>
        /\ ires.res = Err("Forbidden", "tx_code does not match")
        /\ isess = Some(ires.pre)

\* a stale bearer token with an unsupported format and an unparsable proof
C7_Witness ==
    /\ CredRequested
    /\ ires.bearer # ires.pre.token
    /\ ires.cred_req.format # "jwt_vc_json"
    /\ ~Proof.wf
    /\ ires.res.k = "Forbidden"

VcBodyKeys == {"issuer", "id", "type", "CredentialSubject", "validFrom", "validUntil"}

\* a credential JWT in the V2 layout: no `vc` wrapper, the subject at the top level
V2Layout(tok) ==
    /\ tok.wf
    /\ "vc" \notin DOMAIN tok.claims.o
    /\ "CredentialSubject" \in DOMAIN tok.claims.o

\* the V1 equivalent of a V2 credential: the same members under the `vc` wrapper
AsV1(tok) ==
    [tok EXCEPT !.claims =
        JObj([k \in DOMAIN tok.claims.o \ VcBodyKeys |-> tok.claims.o[k]]
             @@ ("vc" :> JObj([k \in DOMAIN tok.claims.o \cap VcBodyKeys |->
                                  tok.claims.o[k]])))]

\* C11: verify_vc selects the claim paths by data model version, so a carried
\* credential in the V2 layout gets the result its V1 equivalent gets.
C11_V2PassesLikeV1 ==
    (VerifiedAll /\ IsOk(vres.vp)) =>
        \A i \in DOMAIN vres.vcs :
            V2Layout(vres.vcs[i]) =>
                verify_vc(vcfg, net, vres.at, vres.vcs[i], vres.kid)
                    = verify_vc(vcfg, net, vres.at, AsV1(vres.vcs[i]), vres.kid)

(***************************************************************************)
(* C12 (checked under ServicesSpec)                                        *)
(***************************************************************************)
\* C12: a session that has received a presentation is in a terminal state: a
\* later verify_all call on it is not accepted and leaves the session as it was.
C12_VerifyIsTerminal ==
    (VerifiedAll /\ vres.pre.vpt.some) =>
        (~IsOk(vres.res) /\ vsess.v = vres.pre)

(***************************************************************************)
(* C13                                                                     *)
(***************************************************************************)
\* C13: the codes of a session are one-time: a token request repeating the
\* request the session has just granted is rejected.
C13_CodesAreOneTime ==
    (ires.op = "validate_token_req" /\ ires.granted = Some(ires.payload)) =>
        ~IsOk(ires.res)

(***************************************************************************)
(* C14                                                                     *)
(***************************************************************************)
\* C14: validate_cred_req sets holder_did and issuer_did only after every
\* check has passed: when it returns an error both are as they were.
C14_DidsSetOnlyOnSuccess ==
    (CredRequested /\ ~IsOk(ires.res)) =>
        /\ isess.v.holder_did = ires.pre.holder_did
        /\ isess.v.issuer_did = ires.pre.issuer_did

(***************************************************************************)
(* C15 (checked under ServicesSpec)                                        *)
(***************************************************************************)
\* the verification record start_vp and to_active create for a (state, nonce)
CreatedVerification(state, nonce) ==
    to_active_verification(start_vp(vcfg, "vp-1").new_model, state, nonce)

\* the issuance record start_vci and to_active create for the values drawn
CreatedIssuing(rnd) ==
    to_active_issuing(start_vci(icfg, VcRequest), rnd[1], rnd[2], rnd[3], rnd[4])

\* C15: a session's id, state, nonce and audience are the ones it was created
\* with after any sequence of operations; verify_all changes nothing but vpt
\* and holder, validate_token_req nothing, and validate_cred_req nothing but
\* holder_did and issuer_did.
C15_SessionIdentityKept ==
    /\ vsess.some =>
          \E rnd \in SessionRandom :
              [vsess.v EXCEPT !.vpt = None, !.holder = None]
                  = CreatedVerification(rnd[1], rnd[2])
    /\ VerifiedAll =>
          [vsess.v EXCEPT !.vpt = vres.pre.vpt, !.holder = vres.pre.holder] = vres.pre
    /\ isess.some =>
          \E rnd \in IssuingRandom :
              [isess.v EXCEPT !.holder_did = None, !.issuer_did = None]
                  = CreatedIssuing(rnd)
    /\ ires.op = "validate_token_req" => isess.v = ires.pre
    /\ CredRequested =>
          [isess.v EXCEPT !.holder_did = ires.pre.holder_did,
                          !.issuer_did = ires.pre.issuer_did] = ires.pre

\* a later presentation by another holder replaced the session's vpt and holder
C15_Witness ==
    /\ VerifiedAll
    /\ vres.pre.holder.some
    /\ vsess.v.holder.some
    /\ vsess.v.holder # vres.pre.holder
    /\ vsess.v.vpt # vres.pre.vpt

(***************************************************************************)
(* C16 (checked under Spec)                                                *)
(***************************************************************************)
\* the checks verify_vc makes on a credential before the temporal ones pass
BeforeValidityOk(vc, holder) ==
    LET tk == validate_token(vcfg, net, vres.at, vc, None)
    IN /\ IsOk(tk.res)
       /\ IsOk(validate_issuer(tk.claims, tk.kid))
       /\ IsOk(validate_vc_id(tk.claims))
       /\ IsOk(validate_vc_sub(tk.claims, holder))

\* the instant a credential's vc.<key> names, when it is a well-formed date
DateOf(vc, key) ==
    LET c == ClaimAt(vc, <<"vc", key>>)
    IN IF c.some THEN parse_from_rfc3339(c.v) ELSE None

\* the credential has no vc.<key> member
Absent(vc, key) == JGet(vc.claims, "vc").some /\ ~JGet(JGet(vc.claims, "vc").v, key).some

\* C16: for a credential that passes the earlier checks of verify_vc, a
\* validFrom later than now gives Security "VC is not valid yet"; otherwise a
\* validUntil earlier than now gives Security "VC has expired"; and verify_vc
\* passes when each of validFrom and validUntil is absent or in range.
C16_ValidityWindow ==
    (VerifiedAll /\ IsOk(vres.vp)) =>
        \A i \in DOMAIN vres.vcs :
            LET vc == vres.vcs[i]
                r == verify_vc(vcfg, net, vres.at, vc, vres.kid)
                from == DateOf(vc, "validFrom")
                until == DateOf(vc, "validUntil")
                fromFine == Absent(vc, "validFrom") \/ (from.some /\ from.v <= vres.at)
                untilFine == Absent(vc, "validUntil") \/ (until.some /\ vres.at <= until.v)
            IN BeforeValidityOk(vc, vres.kid) =>
                /\ (from.some /\ from.v > vres.at) =>
                       r = Err("Security", "VC is not valid yet")
                /\ (fromFine /\ until.some /\ vres.at > until.v) =>
                       r = Err("Security", "VC has expired")
                /\ (fromFine /\ untilFine) => IsOk(r)
                /\ (i = vres.examined /\ ~IsOk(r)) => vres.res = r
                /\ (i = vres.examined /\ IsOk(r)) => IsOk(vres.res)

\* verify_all stopped at a credential whose validUntil has passed, after one
\* whose validity window holds
C16_Witness ==
    /\ VerifiedAll
    /\ vres.examined = 2
    /\ vres.res = Err("Security", "VC has expired")
    /\ DateOf(vres.vcs[1], "validFrom").some
    /\ DateOf(vres.vcs[2], "validUntil").some
    /\ DateOf(vres.vcs[2], "validUntil").v < vres.at

(***************************************************************************)
(* C17 (checked under Spec)                                                *)
(***************************************************************************)
\* C17: start_vp returns Unauthorized exactly when the configured list of
\* requested types is empty, and otherwise creates a session whose vc_type
\* deserializes to the configured list.
C17_StartVpKeepsTypes ==
    (vres.op = "start_vp") =>
        /\ (vres.res.k = "Unauthorized") <=> (vcfg.requested_vcs = << >>)
        /\ IsOk(vres.res) \/ vres.res.k = "Unauthorized"
        /\ IsOk(vres.res) =>
              /\ vsess.some
              /\ vc_types_from_str(vsess.v.vc_type) = Some(vcfg.requested_vcs)

\* a session was created for a list holding a LegalRegistrationNumber type
C17_Witness ==
    /\ vres.op = "start_vp"
    /\ IsOk(vres.res)
    /\ vsess.some
    /\ Len(vcfg.requested_vcs) = 2
    /\ vcfg.requested_vcs[1].of # ""

(***************************************************************************)
(* C18 (checked under IssuerSpec)                                          *)
(***************************************************************************)
\* C18: the offer's pre-authorized_code is the session's tx_code when
\* session.step is true and its pre_auth_code when session.step is false.
C18_OfferedCodeFollowsStep ==
    (ires.op = "get_cred_offer_data") =>
        /\ IsOk(ires.res)
        /\ ires.offer.some
        /\ ires.offer.v.grants.urn_pre_authorized_code.pre_authorized_code
              = IF ires.model.step THEN ires.model.tx_code ELSE ires.model.pre_auth_code

\* an offer was made for a one-phase session and carries its pre_auth_code
C18_Witness ==
    /\ ires.op = "get_cred_offer_data"
    /\ ~ires.model.step
    /\ ires.model.pre_auth_code # ires.model.tx_code
    /\ ires.offer.v.grants.urn_pre_authorized_code.pre_authorized_code
          = ires.model.pre_auth_code

(***************************************************************************)
(* Properties of the DID resolver (checked under ResolverSpec)             *)
(***************************************************************************)
\* get_key was called for a did:web DID with a key id, and the response the
\* host gave to the fetch of its document
WebKeyRequested ==
    /\ vres.op = "get_key"
    /\ parse_did(vres.did) = "Web"
    /\ split_did_id(vres.did).frag.some

Fetched ==
    Fetch(parse_domain(RemovePiece(Pieces(split_did_id(vres.did).base), "did:web:")), net)

EntriesOfKid ==
    { i \in DOMAIN Fetched.methods :
        Fetched.methods[i].id
            = split_did_id(vres.did).base \o "#" \o split_did_id(vres.did).frag.v }

C21_NoFragmentNoFetch ==
    (vres.op = "get_key" /\ parse_did(vres.did) = "Web"
        /\ ~split_did_id(vres.did).frag.some) =>
        /\ vres.res = Err("Format", "did:web requires a key id fragment (#...)")
        /\ vres.fetched = << >>

\* get_key was refused for a did:web DID with a path and no fragment
C21_Witness ==
    /\ vres.op = "get_key"
    /\ vres.did = "did:web:w.example:a:b"
    /\ vres.res.k = "Format"
    /\ vres.fetched = << >>

(***************************************************************************)
(* C22 (checked under IssuerSpec)                                          *)
(***************************************************************************)
\* the issuer's base URL: host, api path and "/issuer", with the loopback
\* address replaced by the inter-container hostname exactly in local mode
IssuerBase ==
    LET plain == get_host(icfg.host) \o <<icfg.api_path, "/issuer">>
    IN Cat([i \in DOMAIN plain |->
               IF icfg.is_local /\ plain[i] = "127.0.0.1"
               THEN "host.docker.internal" ELSE plain[i]])

\* C22: for the deployed configuration the session's aud, the offer's
\* credential_issuer and the issuer of both metadata documents are one string,
\* the issuer's base URL with the loopback address replaced exactly in local mode.
C22_OneIssuerUrl ==
    /\ isess.some => isess.v.aud = IssuerBase
    /\ (ires.op = "get_cred_offer_data" /\ ires.offer.some) =>
          ires.offer.v.credential_issuer = IssuerBase
    /\ (ires.op \in {"get_issuer_data", "get_oauth_server_data"}) =>
          /\ ires.data.issuer = IssuerBase
          /\ ires.data.credential_issuer = IssuerBase
          /\ ires.data.authorization_servers = <<IssuerBase>>

\* the authorization-server metadata of a local deployment on the loopback address
C22_Witness ==
    /\ ires.op = "get_oauth_server_data"
    /\ icfg.is_local
    /\ ires.data.issuer = "http://host.docker.internal:1500/api/v1/issuer"

(***************************************************************************)
(* The conversions of credential types and did:web domains, applied to     *)
(* every value of a bounded input set                                      *)
(***************************************************************************)
\* the strings handed to VcType::from_str besides the displayed ones
TypeStrings ==
    { vc_type_to_string(v) : v \in VcTypes }
    \cup {"", "legalperson", "LegalRegistrationNumber", "LegalRegistrationNumber-TaxId",
          "LegalPerson_jwt_vc_json"}

\* the ':'-separated domains of at most MaxSegments segments, as segment lists
DomainSegments == {"w.example", "a", "b", ""}
DomainSegmentLists == UNION { [1..n -> DomainSegments] : n \in 1..MaxSegments }

\* the domain string of a segment list, as pieces
RECURSIVE DomainPieces(_)
DomainPieces(segs) ==
    IF Len(segs) = 1 THEN <<segs[1]>>
    ELSE <<segs[1], ":">> \o DomainPieces(Tail(segs))

ConversionInit ==
    /\ now = 0
    /\ net = DocV1
    /\ vcfg = None
    /\ vsess = None
    /\ vres = Idle
    /\ icfg = None
    /\ isess = None
    /\ ires = Idle

\* v.to_string()
DisplayVcType ==
    /\ \E v \in VcTypes :
          vres' = [op |-> "to_string", v |-> v, text |-> vc_type_to_string(v)]
    /\ UNCHANGED <<now, net, vcfg, vsess, icfg, isess, ires>>

\* VcType::from_str, of the string just displayed or of any other string
FromStr ==
    /\ \/ /\ vres.op = "to_string"
          /\ vres' = [op |-> "from_str", text |-> vres.text, of |-> Some(vres.v),
                      parsed |-> vc_type_from_str(vres.text)]
       \/ \E s \in TypeStrings :
             vres' = [op |-> "from_str", text |-> s, of |-> None,
                      parsed |-> vc_type_from_str(s)]
    /\ UNCHANGED <<now, net, vcfg, vsess, icfg, isess, ires>>

\* DidResolver::parse_domain
ParseDomain ==
    /\ \E segs \in DomainSegmentLists :
          vres' = [op |-> "parse_domain", segs |-> segs,
                   url |-> parse_domain(DomainPieces(segs))]
    /\ UNCHANGED <<now, net, vcfg, vsess, icfg, isess, ires>>

ConversionNext == DisplayVcType \/ FromStr \/ ParseDomain

ConversionSpec == ConversionInit /\ [][ConversionNext]_vars

(***************************************************************************)
(* C23, C24 (checked under ConversionSpec)                                 *)
(***************************************************************************)
\* C23: parsing the display string of any credential type gives the type back,
\* and the display string of any parsed value is the string that was parsed.
C23_RoundTrip ==
    vres.op = "from_str" =>
        /\ vres.of.some => vres.parsed = Some(vres.of.v)
        /\ vres.parsed.some => vc_type_to_string(vres.parsed.v) = vres.text

\* the URL of a segment list, built from the last segment backwards
RECURSIVE PathOf(_)
PathOf(segs) ==
    IF segs = << >> THEN "/did.json"
    ELSE "/" \o Head(segs) \o PathOf(Tail(segs))

\* C24: parse_domain gives https://{first}/.well-known/did.json for a single
\* segment and https://{first}/{rest joined by '/'}/did.json for more, and its
\* result is never the empty string.
C24_ParseDomainUrl ==
    vres.op = "parse_domain" =>
        /\ vres.url # ""
        /\ Len(vres.segs) = 1 =>
              vres.url = "https://" \o vres.segs[1] \o "/.well-known/did.json"
        /\ Len(vres.segs) > 1 =>
              vres.url = "https://" \o vres.segs[1] \o PathOf(Tail(vres.segs))

\* a domain with two path segments
C24_Witness ==
    /\ vres.op = "parse_domain"
    /\ vres.segs = <<"w.example", "a", "b">>
    /\ vres.url = "https://w.example/a/b/did.json"

(***************************************************************************)
(* C25 (checked under Spec)                                                *)
(***************************************************************************)
\* the exp claim of the presented token lies before the instant of the call
ExpiredPresentation ==
    /\ vres.token.wf
    /\ JGet(vres.token.claims, "exp").some
    /\ JGet(vres.token.claims, "exp").v.t = "num"
    /\ JGet(vres.token.claims, "exp").v.n < vres.at

\* C25: verify_all never accepts a presentation whose exp lies in the past.
C25_NoExpiredPresentation ==
    (vres.op = "verify_all" /\ IsOk(vres.res)) => ~ExpiredPresentation

(***************************************************************************)
(* C26 (checked under Spec)                                                *)
(***************************************************************************)
\* the credential type a verified credential states (vc.type)
TypeOfVc(vc) == ClaimAt(vc, <<"vc", "type">>)

\* C26: verify_all succeeds only for a presentation that holds at least one
\* credential, and one of each credential type the session requested.
C26_RequestedTypesPresented ==
    (vres.op = "verify_all" /\ IsOk(vres.res)) =>
        LET requested == vc_types_from_str(vsess.v.vc_type)
        IN /\ vres.vcs # << >>
           /\ requested.some
           /\ \A i \in DOMAIN requested.v :
                 \E j \in DOMAIN vres.vcs :
                     TypeOfVc(vres.vcs[j]) = Some(vc_type_to_string(requested.v[i]))

(***************************************************************************)
(* C27 (checked under IssuerSpec)                                          *)
(***************************************************************************)
\* the offer just made is the offer of the stored session
OfferPublished ==
    /\ isess.some
    /\ ires.op = "get_cred_offer_data"
    /\ ires.model = isess.v
    /\ ires.offer.some

\* C27: a token request that presents as pre_authorized_code the code the
\* offer of a freshly created session published (with no tx_code or the
\* session's own) is accepted by validate_token_req.
C27_OfferedCodeAccepted ==
    [][(/\ OfferPublished
        /\ ires'.op = "validate_token_req"
        /\ ires'.payload.pre_authorized_code
              = ires.offer.v.grants.urn_pre_authorized_code.pre_authorized_code
        /\ ires'.payload.tx_code \in {None, Some(isess.v.tx_code)})
       => IsOk(ires'.res)]_vars

(***************************************************************************)
(* C28 (checked under Spec)                                                *)
(***************************************************************************)
\* the presented token passed validate_token, validate_nonce and the
\* subject/issuer check: its sub and iss, where present, are the signer's DID
SubjectCheckPassed ==
    LET tk == validate_token(vcfg, net, vres.at, vres.token, Some(vres.pre.state))
    IN /\ IsOk(tk.res)
       /\ IsOk(validate_nonce(vres.pre, tk.claims))
       /\ \A k \in {"sub", "iss"} :
             LET c == JGet(tk.claims, k)
             IN c.some => (c.v.t = "str" /\ c.v.s = tk.kid)

\* C28: after a failed verify_vp the session's success is still unset, its vpt
\* is the presented token, and its holder is set exactly when the failure came
\* after the subject/issuer check had passed.
C28_FailedVpLeaves ==
    (vres.op = "verify_all" /\ ~IsOk(vres.vp)) =>
        /\ vsess.v.success = None
        /\ vsess.v.vpt = Some(vres.token)
        /\ vsess.v.holder.some <=> SubjectCheckPassed
        /\ vsess.v.holder.some => vsess.v.holder = Some(vres.kid)

\* a presentation rejected for its vp.id, after the holder was recorded
C28_Witness ==
    /\ vres.op = "verify_all"
    /\ vres.vp = Err("Security", "Invalid id, it does not match")
    /\ vsess.v.holder.some
    /\ vsess.v.vpt = Some(vres.token)
    /\ vsess.v.success = None

(***************************************************************************)
(* C29 (checked under ServicesSpec)                                        *)
(***************************************************************************)
\* verify_vp came as far as validate_holder for the presented token
ReachedHolderCheck ==
    /\ SubjectCheckPassed
    /\ LET vp == JGet(vres.token.claims, "vp")
       IN /\ vp.some
          /\ JGet(vp.v, "id") = Some(JStr(vres.pre.id))

\* C29: no call of the verifier or the issuer ends in a panic, and whenever
\* verify_vp reaches the vp.holder comparison the session's holder is set.
C29_NoPanic ==
    /\ vres.res.k # "Panic"
    /\ ires.res.k # "Panic"
    /\ vres.op = "verify_all" =>
          /\ vres.vp.k # "Panic"
          /\ ReachedHolderCheck => vsess.v.holder.some

\* a presentation that reached the holder comparison and failed it
C29_Witness ==
    /\ vres.op = "verify_all"
    /\ ReachedHolderCheck
    /\ vres.vp = Err("Security", "Invalid holder, it does not match")
    /\ vsess.v.holder.some

(***************************************************************************)
(* Concurrent flows on one verification session: each flow loads the       *)
(* stored record, runs verify_all on its copy and writes the copy back.    *)
(* vsess is the stored row; vres.flows holds each flow's position, its     *)
(* copy of the record, the token it was handed and its result.             *)
(***************************************************************************)
FlowIds == 1..MaxFlows

\* BasicRepoTrait::get_by_id
get_by_id(db, id) == IF db.some /\ db.v.id = id THEN db ELSE None

\* BasicRepoTrait::update : Model::to_active sets every column, and the UPDATE
\* is keyed by the primary key alone
update(db, model) == IF db.some /\ db.v.id = model.id THEN Some(model) ELSE db

\* the presentations handed to the flows: a valid one from each holder, and one
\* with a foreign nonce
FlowTokens(cfg, sess) ==
    { BuildVp(cfg, sess, [h |-> h, n |-> 0, dev |-> {}]) : h \in HolderIds }
    \cup { BuildVp(cfg, sess, [h |-> PairHolder, n |-> 0,
                               dev |-> {<<(<<0, "nonce">>), <<"other", "good">>>>}]) }

FlowIdle == [pc |-> "idle", model |-> None, tok |-> None, res |-> Ok]

FlowsInit ==
    /\ now = 0
    /\ net = DocV1
    /\ vcfg \in { c \in VerifierConfigs : c.is_local }
    /\ vsess = None
    /\ vres = [op |-> "flows", res |-> Ok, flows |-> [f \in FlowIds |-> FlowIdle]]
    /\ icfg = None
    /\ isess = None
    /\ ires = Idle

\* start_vp followed by BasicRepoTrait::create
Create ==
    /\ ~vsess.some
    /\ \E rnd \in SessionRandom :
          With(start_vp(vcfg, "vp-1"), LAMBDA r :
              /\ IsOk(r.res)
              /\ vsess' = Some(to_active_verification(r.new_model, rnd[1], rnd[2])))
    /\ UNCHANGED <<now, net, vcfg, vres, icfg, isess, ires>>

\* a flow reads the session's row
Load ==
    /\ \E f \in FlowIds :
          /\ vres.flows[f].pc = "idle"
          /\ get_by_id(vsess, "vp-1").some
          /\ vres' = [vres EXCEPT !.flows[f] =
                         [@ EXCEPT !.pc = "loaded", !.model = get_by_id(vsess, "vp-1")]]
    /\ UNCHANGED <<now, net, vcfg, vsess, icfg, isess, ires>>

\* the flow runs verify_all on its copy of the row
Mutate ==
    /\ \E f \in FlowIds :
          /\ vres.flows[f].pc = "loaded"
          /\ \E tok \in FlowTokens(vcfg, vres.flows[f].model.v) :
                With(verify_all(vcfg, net, now, vres.flows[f].model.v, tok), LAMBDA r :
                    vres' = [vres EXCEPT !.flows[f] =
                                [pc |-> "mutated", model |-> Some(r.model),
                                 tok |-> Some(tok), res |-> r.res]])
    /\ UNCHANGED <<now, net, vcfg, vsess, icfg, isess, ires>>

\* the flow writes its copy back
Update ==
    /\ \E f \in FlowIds :
          /\ vres.flows[f].pc = "mutated"
          /\ vsess' = update(vsess, vres.flows[f].model.v)
          /\ vres' = [vres EXCEPT !.flows[f].pc = "done"]
    /\ UNCHANGED <<now, net, vcfg, icfg, isess, ires>>

FlowsNext == Create \/ Load \/ Mutate \/ Update

FlowsSpec == FlowsInit /\ [][FlowsNext]_vars

(***************************************************************************)
(* C30 (checked under FlowsSpec)                                           *)
(***************************************************************************)
\* the flows that have loaded the row and not yet written it back
Mutating == { f \in FlowIds : vres.flows[f].pc \in {"loaded", "mutated"} }

\* C30: at most one flow at a time is between its load and its update of the
\* session's row, so that no flow writes over a record it has not seen.
C30_OneMutationAtATime == Cardinality(Mutating) <= 1

(***************************************************************************)
(* The retrying HTTP client (ClientService).  vres holds the service: its  *)
(* configuration, the permits its limiter has left, the dispatches waiting *)
(* for a permit in arrival order, and each dispatch's position: the        *)
(* attempt counter of execute_with_retries, the send_request calls made,   *)
(* what the last of them met on the wire, and the result returned.         *)
(***************************************************************************)
DispatchIds == 1..MaxDispatches

\* ClientService::new(concurrency_limit, timeout_secs, max_retries)
ClientConfigs ==
    { [concurrency_limit |-> c, max_retries |-> r] :
        c \in 1..MaxPermits, r \in 0..MaxRetries }

\* what a call of send_request can meet: a body that cannot be encoded, a
\* transport failure of req.send(), or a response with a status
Wire(k, s) == [k |-> k, s |-> s]
WireOutcomes ==
    { Wire("form", 0), Wire("network", 0) }
    \cup { Wire("status", s) : s \in {200, 404, 500, 503} }
NoWire == Wire("none", 0)

\* Outcome<Response> : Ok(response) or an Errors value
Response(s) == [k |-> "Ok", m |-> "", s |-> s]
PetitionError(failure, s) == [k |-> "Petition", m |-> failure, s |-> s]
ParseError == [k |-> "Parse", m |-> "Unable to parse form", s |-> 0]
Panicked == [k |-> "Panic", m |-> "attempt to multiply with overflow", s |-> 0]
NoResult == [k |-> "none", m |-> "", s |-> 0]

\* send_request that reports every status from 400 on as an HttpStatus failure
send_request_failing_on_4xx(w) ==
    IF w.k = "form" THEN ParseError
    ELSE IF w.k = "network" THEN PetitionError("Network", 0)
    ELSE IF w.s >= 400 THEN PetitionError("HttpStatus", w.s)
    ELSE Response(w.s)

\* ClientService::send_request (with apply_body)
send_request(w) ==
    IF w.k = "form" THEN ParseError
    ELSE IF w.k = "network" THEN PetitionError("Network", 0)
    ELSE IF w.s >= 500 /\ w.s <= 599 THEN PetitionError("HttpStatus", w.s)
    ELSE Response(w.s)

\* should_retry without its limit on the attempts
should_retry_unlimited(max_retries, err, attempt) ==
    IF err.k = "Petition"
    THEN IF err.m = "Network" THEN TRUE
         ELSE IF err.m = "HttpStatus" THEN err.s >= 500 /\ err.s <= 599
         ELSE FALSE
    ELSE FALSE

\* ClientService::should_retry
should_retry(max_retries, err, attempt) ==
    IF attempt > max_retries THEN FALSE
    ELSE IF err.k = "Petition"
    THEN IF err.m = "Network" THEN TRUE
         ELSE IF err.m = "HttpStatus" THEN err.s >= 500 /\ err.s <= 599
         ELSE FALSE
    ELSE FALSE

\* 2u64.pow(attempt) : the power fits 64 bits for an attempt below 64; from 64
\* on a build with overflow checks panics and one without wraps to 0
backoff_outcomes(attempt) ==
    IF attempt < U64Bits THEN {"sleep"} ELSE {"sleep", "panic"}

\* the drop of the SemaphorePermit that never gives the permit back
permit_drop_leaking(permits) == permits

\* the drop of the SemaphorePermit at the end of dispatch
permit_drop(permits) == permits + 1

DispatchIdle == [pc |-> "idle", attempt |-> 0, sends |-> 0, last |-> NoWire,
                 result |-> NoResult]

ClientInit ==
    /\ now = 0
    /\ net = DocV1
    /\ vcfg = None
    /\ vsess = None
    /\ \E cfg \in ClientConfigs :
          vres = [op |-> "client", res |-> Ok, cfg |-> cfg,
                  permits |-> cfg.concurrency_limit, queue |-> << >>,
                  d |-> [i \in DispatchIds |-> DispatchIdle]]
    /\ icfg = None
    /\ isess = None
    /\ ires = Idle

\* dispatch is called and waits in limiter.acquire()
Dispatch(i) ==
    /\ vres.d[i].pc = "idle"
    /\ vres' = [vres EXCEPT !.d[i].pc = "waiting", !.queue = Append(@, i)]
    /\ UNCHANGED <<now, net, vcfg, vsess, icfg, isess, ires>>

\* the limiter hands a permit to the dispatch that has waited longest;
\* execute_with_retries starts with attempt = 1
Acquire(i) ==
    /\ vres.queue # << >>
    /\ Head(vres.queue) = i
    /\ vres.permits > 0
    /\ vres' = [vres EXCEPT !.permits = @ - 1, !.queue = Tail(@),
                            !.d[i] = [@ EXCEPT !.pc = "sending", !.attempt = 1]]
    /\ UNCHANGED <<now, net, vcfg, vsess, icfg, isess, ires>>

\* one turn of the loop of execute_with_retries: send_request, then return the
\* response, return the error, or go to sleep for the backoff
SendRequest(i) ==
    /\ vres.d[i].pc = "sending"
    /\ vres.d[i].sends < MaxRetries + 2
    /\ \E w \in WireOutcomes :
          With(send_request(w), LAMBDA r :
          With([vres.d[i] EXCEPT !.sends = @ + 1, !.last = w], LAMBDA sent :
              IF r.k = "Ok" \/ ~should_retry(vres.cfg.max_retries, r, sent.attempt)
              THEN vres' = [vres EXCEPT !.permits = permit_drop(@),
                                         !.d[i] = [sent EXCEPT !.pc = "done",
                                                               !.result = r]]
              ELSE \E b \in backoff_outcomes(sent.attempt) :
                      IF b = "panic"
                      THEN vres' = [vres EXCEPT !.permits = permit_drop(@),
                                                 !.d[i] = [sent EXCEPT !.pc = "done",
                                                                       !.result = Panicked]]
                      ELSE vres' = [vres EXCEPT !.d[i] = [sent EXCEPT !.pc = "backoff"]]))
    /\ UNCHANGED <<now, net, vcfg, vsess, icfg, isess, ires>>

\* tokio::time::sleep(backoff) is over: attempt += 1 and the loop goes round
Wake(i) ==
    /\ vres.d[i].pc = "backoff"
    /\ vres' = [vres EXCEPT !.d[i] = [@ EXCEPT !.pc = "sending", !.attempt = @ + 1]]
    /\ UNCHANGED <<now, net, vcfg, vsess, icfg, isess, ires>>

\* the caller drops the future of dispatch at one of its await points: a
\* dispatch still waiting leaves the queue, one past acquire drops its permit
Cancel(i) ==
    /\ vres.d[i].pc \in {"waiting", "sending", "backoff"}
    /\ vres' = [vres EXCEPT
                   !.permits = IF vres.d[i].pc = "waiting" THEN @ ELSE permit_drop(@),
                   !.queue = SelectSeq(@, LAMBDA j : j # i),
                   !.d[i] = [DispatchIdle EXCEPT !.pc = "cancelled"]]
    /\ UNCHANGED <<now, net, vcfg, vsess, icfg, isess, ires>>

Dispatches == \E i \in DispatchIds : Dispatch(i)
Acquires == \E i \in DispatchIds : Acquire(i)
SendRequests == \E i \in DispatchIds : SendRequest(i)
Wakes == \E i \in DispatchIds : Wake(i)
Cancels == \E i \in DispatchIds : Cancel(i)

ClientNext == Dispatches \/ Acquires \/ SendRequests \/ Wakes \/ Cancels

ClientSpec == ClientInit /\ [][ClientNext]_vars

\* the runtime polls every task that can make progress: a permit that is free
\* is handed out, a request that was sent completes, a sleep ends
ClientFairSpec ==
    /\ ClientSpec
    /\ \A i \in DispatchIds :
          WF_vars(Acquire(i)) /\ WF_vars(SendRequest(i)) /\ WF_vars(Wake(i))

(***************************************************************************)
(* C31 (checked under ClientFairSpec)                                      *)
(***************************************************************************)
\* the dispatch is inside execute_with_retries
Running(i) == vres.d[i].pc \in {"sending", "backoff"}
Returned(i) == vres.d[i].pc = "done" /\ vres.d[i].result.k \in {"Ok", "Petition", "Parse"}

\* C31: a dispatch makes at most max_retries + 1 send attempts, and once it is
\* inside execute_with_retries it returns a response or an error (or is
\* dropped by its caller) after finitely many attempts.
C31_BoundedAttempts ==
    /\ [](\A i \in DispatchIds : vres.d[i].sends <= vres.cfg.max_retries + 1)
    /\ \A i \in DispatchIds :
          Running(i) ~> (Returned(i) \/ vres.d[i].pc = "cancelled")

\* a dispatch that failed on every one of its max_retries + 1 attempts
C31_Witness ==
    \E i \in DispatchIds :
        /\ vres.cfg.max_retries = MaxRetries
        /\ vres.d[i].pc = "done"
        /\ vres.d[i].result = PetitionError("Network", 0)
        /\ vres.d[i].sends = vres.cfg.max_retries + 1

(***************************************************************************)
(* C32 (checked under ClientSpec)                                          *)
(***************************************************************************)
\* what a send met was a transport failure or a response with a 5xx status
Retryable(w) == w.k = "network" \/ (w.k = "status" /\ w.s >= 500)

\* C32: a dispatch goes on to a further attempt only after a transport failure
\* or a 5xx response; a response with a status below 500 is returned on the
\* attempt that received it, and any other error is returned without retry.
C32_RetryOnlyTransient ==
    \A i \in DispatchIds :
        LET d == vres.d[i]
        IN /\ (d.pc = "backoff" \/ (d.pc = "sending" /\ d.attempt > 1)) =>
                  Retryable(d.last)
           /\ (d.last.k = "status" /\ d.last.s < 500) =>
                  d.pc = "done" /\ d.result = Response(d.last.s)
           /\ d.last.k = "form" =>
                  d.pc = "done" /\ d.result = ParseError

\* a 404 response returned as a response on the second attempt
C32_Witness ==
    \E i \in DispatchIds :
        /\ vres.d[i].pc = "done"
        /\ vres.d[i].sends = 2
        /\ vres.d[i].result = Response(404)


(***************************************************************************)
(* C33 (checked under ClientFairSpec)                                      *)
(***************************************************************************)
\* the dispatches that hold a permit: past acquire and not yet returned
Holders == { i \in DispatchIds : vres.d[i].pc \in {"sending", "backoff"} }

\* C33: at most concurrency_limit dispatches hold a permit, a dispatch holds
\* its permit through all its attempts and backoff waits and gives it back on
\* every way out, and a dispatch waiting for a permit eventually proceeds.
C33_PermitsBounded ==
    /\ [](/\ Cardinality(Holders) <= vres.cfg.concurrency_limit
          /\ vres.permits = vres.cfg.concurrency_limit - Cardinality(Holders))
    /\ \A i \in DispatchIds :
          (vres.d[i].pc = "waiting") ~> (vres.d[i].pc # "waiting")

\* a dispatch waits while the only permit is held by one in its backoff sleep
C33_Witness ==
    /\ vres.cfg.concurrency_limit = 1
    /\ vres.permits = 0
    /\ \E i, j \in DispatchIds :
          vres.d[i].pc = "waiting" /\ vres.d[j].pc = "backoff"


(***************************************************************************)
(* C35 (checked under RotationSpec)                                        *)
(***************************************************************************)
\* the DID's document is the one the host w.example serves
Hosted(did) ==
    parse_domain(RemovePiece(Pieces(split_did_id(did).base), "did:web:")) = HostedUrl

\* the keys the document doc holds under exactly the DID did
KeysOf(doc, did) ==
    { doc.methods[i].jwk : i \in { j \in DOMAIN doc.methods : doc.methods[j].id = did } }

\* C35: every get_key call on a did:web DID fetches the document and answers
\* from the document the host serves at that moment, whatever an earlier call
\* returned: a key changed in between is the key the later call returns.
C35_FreshFetch ==
    [][(/\ vres' # vres
        /\ vres'.op = "get_key"
        /\ parse_did(vres'.did) = "Web"
        /\ split_did_id(vres'.did).frag.some
        /\ Hosted(vres'.did))
       => /\ vres'.fetched = <<HostedUrl>>
          /\ IsOk(vres'.res) =>
                /\ net.status = 200
                /\ Some(vres'.key) \in KeysOf(net, vres'.did)
          /\ (net.status = 200 /\ KeysOf(net, vres'.did) = {}) => ~IsOk(vres'.res)]_vars

\* the second call for a DID returned the key the document was changed to
C35_Witness ==
    /\ vres.op = "get_key"
    /\ vres.did = Cat(DidWeb)
    /\ vres.prev = Some([res |-> Ok, key |-> "keyW1"])
    /\ vres.res = Ok
    /\ vres.key = "keyW2"


(***************************************************************************)
(* Errors and the HTTP response built from them                            *)
(***************************************************************************)
\* the values that must stay out of a response: tokens, codes, private keys
SecretValues == {"secretA", "secretB", "secretC"}

\* the constructors of Errors, with the argument that selects the error code
ErrorSites ==
    {[c |-> "petition", o |-> f] :
        f \in {"Network", "HttpStatus", "BodyDeserialization", "BodyRead",
               "Serialization", "Concurrency"}}
    \cup {[c |-> c, o |-> ""] :
        c \in {"wallet", "provider", "consumer", "authority", "missing_resource",
               "unauthorized", "forbidden", "security", "db", "not_impl", "parse",
               "crazy"}}
    \cup {[c |-> "missing_action", o |-> a] :
        a \in {"Token", "Wallet", "Key", "Did", "Onboarding", "Other"}}
    \cup {[c |-> "format", o |-> b] : b \in {"Sent", "Received", "Other"}}

ErrorInfo(message, error_code, status_code) ==
    [message |-> message, error_code |-> error_code, status_code |-> status_code,
     details |-> None]

\* the ErrorInfo each constructor fills in
ErrorInfoOf(site) ==
    CASE site.c = "petition" ->
            ErrorInfo("Petition Error",
                      CASE site.o = "Network" -> 1100
                        [] site.o = "HttpStatus" -> 1200
                        [] site.o = "BodyDeserialization" -> 1300
                        [] site.o = "BodyRead" -> 1600
                        [] site.o = "Serialization" -> 1400
                        [] OTHER -> 1500,
                      CASE site.o = "Serialization" -> 500
                        [] site.o = "Concurrency" -> 503
                        [] OTHER -> 502)
      [] site.c = "wallet" -> ErrorInfo("Wallet Error", 1200, 502)
      [] site.c = "provider" -> ErrorInfo("Provider Error", 1300, 502)
      [] site.c = "consumer" -> ErrorInfo("Consumer Error", 1400, 502)
      [] site.c = "authority" -> ErrorInfo("Authority Error", 1500, 502)
      [] site.c = "missing_action" ->
            ErrorInfo("Missing Action Error",
                      CASE site.o = "Token" -> 3110
                        [] site.o = "Wallet" -> 3120
                        [] site.o = "Key" -> 3130
                        [] site.o = "Did" -> 3140
                        [] site.o = "Onboarding" -> 3150
                        [] OTHER -> 3100,
                      412)
      [] site.c = "missing_resource" -> ErrorInfo("Missing Resource Error", 3200, 404)
      [] site.c = "format" ->
            ErrorInfo("Format Error",
                      CASE site.o = "Sent" -> 3110
                        [] site.o = "Received" -> 3120
                        [] OTHER -> 3100,
                      IF site.o = "Sent" THEN 502 ELSE 400)
      [] site.c = "unauthorized" -> ErrorInfo("Unauthorized Error", 4200, 401)
      [] site.c = "forbidden" -> ErrorInfo("Forbidden Error", 4300, 403)
      [] site.c = "security" -> ErrorInfo("Security Error", 4400, 422)
      [] site.c = "db" -> ErrorInfo("Database Error", 5100, 500)
      [] site.c = "not_impl" -> ErrorInfo("Feature Not Implemented", 5200, 501)
      [] site.c = "parse" -> ErrorInfo("Parse Error", 5530, 400)
      [] OTHER -> ErrorInfo("Something unexpected happened", 6000, 500)

\* the error a constructor builds when url, resource id and reason are made
\* of the given pieces
NewError(site, url, resource_id, reason) ==
    [site |-> site.c,
     info |-> ErrorInfoOf(site),
     url |-> IF site.c \in {"petition", "wallet", "provider", "consumer", "authority"}
             THEN url ELSE << >>,
     resource_id |-> IF site.c = "missing_resource" THEN resource_id ELSE << >>,
     reason |-> reason]

\* an info that repeats the reason of the error in its details
info_with_reason(e) == [e.info EXCEPT !.details = Some(e.reason)]

\* Errors::info
info(e) == e.info

\* Errors::into_response : the status and the JSON of the info, whose
\* status_code is skipped by serde
into_response(e) ==
    With(info(e), LAMBDA i :
        [status |-> i.status_code,
         body |-> [message |-> i.message, error_code |-> i.error_code,
                   details |-> i.details]])

\* Errors::log : the line written to the log
log(e) == <<e.info.message>> \o e.url \o e.resource_id \o e.reason

\* BasicRepoTrait::help_find : the row, or the error for the outcome of the query
help_find(outcome, resource, id) ==
    CASE outcome = "db_error" ->
            [found |-> FALSE,
             err |-> NewError([c |-> "db", o |-> ""], << >>, << >>,
                              <<"Unable to find model with column '", resource,
                                "' with value ", id>>)]
      [] outcome = "none" ->
            [found |-> FALSE,
             err |-> NewError([c |-> "missing_resource", o |-> ""], << >>, <<id>>,
                              <<"Unable to find model with column '", resource,
                                "' with value ", id>>)]
      [] OTHER -> [found |-> TRUE]

\* what one failure leaves behind: the error, the response and the log line
Failure(e) == [err |-> e, http |-> into_response(e), logged |-> log(e)]

ErrorsInit ==
    /\ now = 0
    /\ net = DocV1
    /\ vcfg = None
    /\ vsess = None
    /\ vres = [op |-> "none", res |-> Ok, first |-> None, second |-> None]
    /\ icfg = None
    /\ isess = None
    /\ ires = Idle

\* the same failure met by two requests that carry the secrets s and t
Respond ==
    /\ \E site \in ErrorSites, s \in SecretValues, t \in SecretValues :
          vres' = [op |-> "respond", res |-> Ok,
                   first |-> Some(Failure(NewError(site, <<"https://w.example/", s>>,
                                                  <<s>>, <<"rejected ", s>>))),
                   second |-> Some(Failure(NewError(site, <<"https://w.example/", t>>,
                                                   <<t>>, <<"rejected ", t>>)))]
    /\ UNCHANGED <<now, net, vcfg, vsess, icfg, isess, ires>>

\* two lookups by the values s and t whose queries end alike
HelpFind ==
    /\ \E outcome \in {"db_error", "none", "row"}, s \in SecretValues, t \in SecretValues :
          With(help_find(outcome, "token", s), LAMBDA a :
          With(help_find(outcome, "token", t), LAMBDA b :
              vres' = [op |-> "help_find", res |-> Ok,
                       first |-> IF a.found THEN None ELSE Some(Failure(a.err)),
                       second |-> IF b.found THEN None ELSE Some(Failure(b.err))]))
    /\ UNCHANGED <<now, net, vcfg, vsess, icfg, isess, ires>>

ErrorsNext == Respond \/ HelpFind

ErrorsSpec == ErrorsInit /\ [][ErrorsNext]_vars

(***************************************************************************)
(* C36 (checked under ErrorsSpec)                                          *)
(***************************************************************************)
\* the strings a response body is made of
BodyStrings(body) ==
    {body.message}
    \cup (IF body.details.some
          THEN {body.details.v[i] : i \in DOMAIN body.details.v}
          ELSE {})

\* C36: the response built for a failure holds no secret value, and two
\* failures of the same kind that differ only in the secret involved get the
\* same status and the same body.
C36_NoSecretInPayload ==
    (vres.op \in {"respond", "help_find"} /\ vres.first.some)
        => /\ vres.second.some
           /\ vres.first.v.http = vres.second.v.http
           /\ BodyStrings(vres.first.v.http.body) \cap SecretValues = {}
           /\ BodyStrings(vres.second.v.http.body) \cap SecretValues = {}

\* two lookups by different tokens failed: the tokens are in the log lines,
\* which differ, and the responses are the same
C36_Witness ==
    /\ vres.op = "help_find"
    /\ vres.first.some
    /\ vres.first.v.err.site = "missing_resource"
    /\ vres.first.v.err.resource_id = <<"secretA">>
    /\ vres.second.v.err.resource_id = <<"secretB">>
    /\ vres.first.v.logged # vres.second.v.logged
    /\ vres.first.v.http.status = 404


(***************************************************************************)
(* The walt.id wallet service                                              *)
(***************************************************************************)
MaxHeld == 2

\* the key the vault holds under VAULT_APP_PRIV_KEY, as the wallet names it
VaultKey == "keyV"

\* the did:jwk the wallet derives from a key
did_jwk(k) == "did:jwk:" \o k

Contains(s, x) == \E i \in DOMAIN s : s[i] = x

\* Vec::retain(|x| x != gone)
Retain(s, gone) == SelectSeq(s, LAMBDA x : x # gone)

\* `for x in fetched { if !local.contains(&x) { local.push(x) } }`
RECURSIVE PushNew(_, _)
PushNew(local, fetched) ==
    IF fetched = << >> THEN local
    ELSE PushNew(IF Contains(local, Head(fetched)) THEN local
                 ELSE Append(local, Head(fetched)),
                 Tail(fetched))

\* `r?; next(w)` for results that carry the wallet state
AndThen(r, F(_)) == IF IsOk(r.res) THEN F(r.w) ELSE r

\* what the wallet may hold before the service first talks to it: up to
\* MaxHeld keys, none of them after the first the vault's key, each with its DID
HeldKeys ==
    { ks \in UNION { [1..n -> {"keyV", "keyOld", "keyOther"}] : n \in 1..MaxHeld } :
        /\ \A i, j \in DOMAIN ks : i # j => ks[i] # ks[j]
        /\ \A i \in DOMAIN ks : i > 1 => ks[i] # VaultKey }

RemoteWallets ==
    { [keys |-> ks, dids |-> [i \in DOMAIN ks |-> did_jwk(ks[i])], default |-> None,
       imported |-> None, created |-> None] : ks \in HeldKeys }

\* WaltIdService::new : nothing known locally
NewWallet(remote) ==
    [account_id |-> None, token |-> None, token_exp |-> None, wallets |-> << >>,
     key_data |-> << >>, remote |-> remote]

\* the answers of the wallet API to a login
LoginResponses ==
    {[status |-> 401], [status |-> 0], [status |-> 200, body |-> "other"]}
    \cup {[status |-> 200, body |-> "login", id |-> a, token |-> t, parts |-> p,
           payload |-> c, exp |-> 9] :
            a \in {"acc1", "acc2"}, t \in {"tokA", "tokB"}, p \in {2, 3},
            c \in {"claims", "not_base64", "not_claims"}}

\* WalletTrait::register : 201 and 409 both pass
register(w) == [res |-> Ok, w |-> w]

\* WalletTrait::login
login(w, r) ==
    IF r.status = 0 THEN [res |-> Err("Petition", "Network"), w |-> w]
    ELSE IF r.status # 200
    THEN [res |-> Err("Wallet", "Petition to login into Wallet failed"), w |-> w]
    ELSE IF r.body # "login" THEN [res |-> Err("Other", "json"), w |-> w]
    ELSE With([w EXCEPT !.account_id = Some(r.id), !.token = Some(r.token)], LAMBDA s :
        IF r.parts # 3
        THEN [res |-> Err("Format", "The jwt does not have the correct format"), w |-> s]
        ELSE IF r.payload = "not_base64" THEN [res |-> Err("Other", "base64"), w |-> s]
        ELSE IF r.payload = "not_claims" THEN [res |-> Err("Other", "json"), w |-> s]
        ELSE [res |-> Ok, w |-> [s EXCEPT !.token_exp = Some(r.exp)]])

\* WalletTrait::logout
logout(w) == [res |-> Ok, w |-> [w EXCEPT !.token = None]]

\* WalletTrait::get_wallet
get_wallet(w) ==
    IF w.wallets = << >>
    THEN [res |-> Err("MissingAction", "There is no wallet to retrieve dids from"), w |-> w]
    ELSE [res |-> Ok, w |-> w]

\* WalletTrait::get_token
get_token(w) ==
    IF w.token.some THEN [res |-> Ok, w |-> w]
    ELSE [res |-> Err("MissingAction", "There is no token available for use"), w |-> w]

\* WalletTrait::get_key of the wallet service
wallet_get_key(w) ==
    IF w.key_data = << >>
    THEN [res |-> Err("MissingAction", "Retrieve keys from wallet first"), w |-> w]
    ELSE [res |-> Ok, w |-> w]

\* WalletTrait::get_did
get_did(w) ==
    AndThen(get_wallet(w), LAMBDA s :
        IF Head(s.wallets).dids = << >>
        THEN [res |-> Err("MissingAction", "No DIDs found in wallet"), w |-> s]
        ELSE [res |-> Ok, w |-> s])

\* WalletTrait::retrieve_wallet_info
retrieve_wallet_info(w) ==
    AndThen(get_token(w), LAMBDA s :
        [res |-> Ok,
         w |-> [s EXCEPT !.wallets = PushNew(@, <<[id |-> "w1", dids |-> << >>]>>)]])

\* WalletTrait::retrieve_wallet_keys
retrieve_wallet_keys(w) ==
    AndThen(get_wallet(w), LAMBDA s1 :
    AndThen(get_token(s1), LAMBDA s :
        [res |-> Ok, w |-> [s EXCEPT !.key_data = PushNew(@, s.remote.keys)]]))

\* the lock and the merge that end retrieve_wallet_dids
merge_dids(w, fetched) ==
    IF w.wallets = << >> THEN [res |-> Err("MissingAction", "No wallet available"), w |-> w]
    ELSE [res |-> Ok, w |-> [w EXCEPT !.wallets[1].dids = PushNew(@, fetched)]]

\* WalletTrait::retrieve_wallet_dids
retrieve_wallet_dids(w) ==
    AndThen(get_wallet(w), LAMBDA s1 :
    AndThen(get_token(s1), LAMBDA s :
        merge_dids(s, s.remote.dids)))

\* WalletTrait::register_key
register_key(w) ==
    AndThen(get_wallet(w), LAMBDA s1 :
    AndThen(get_token(s1), LAMBDA s :
        IF Contains(s.remote.keys, VaultKey)
        THEN [res |-> Err("Wallet", "Petition to register key failed"), w |-> s]
        ELSE [res |-> Ok,
              w |-> [s EXCEPT !.remote.keys = Append(@, VaultKey),
                              !.remote.imported = Some(VaultKey)]]))

\* WalletTrait::register_did with reg_did_jwk : 200 and 409 both pass
register_did(w) ==
    AndThen(get_wallet(w), LAMBDA s1 :
    AndThen(get_token(s1), LAMBDA s2 :
    AndThen(wallet_get_key(s2), LAMBDA s :
        With(Head(s.key_data), LAMBDA k :
            IF ~Contains(s.remote.keys, k)
            THEN [res |-> Err("Wallet", "Petition to register key failed"), w |-> s]
            ELSE [res |-> Ok,
                  w |-> [s EXCEPT !.remote.dids = PushNew(@, <<did_jwk(k)>>),
                                  !.remote.created = Some(did_jwk(k))]]))))

\* WalletTrait::set_default_did
set_default_did(w) ==
    AndThen(get_token(w), LAMBDA s1 :
    AndThen(get_did(s1), LAMBDA s :
        With(Head(Head(s.wallets).dids), LAMBDA d :
            IF ~Contains(s.remote.dids, d)
            THEN [res |-> Err("Wallet", "Petition to set did as default failed"), w |-> s]
            ELSE [res |-> Ok, w |-> [s EXCEPT !.remote.default = Some(d)]])))

\* WalletTrait::delete_key
delete_key(w, key) ==
    AndThen(get_wallet(w), LAMBDA s1 :
    AndThen(get_token(s1), LAMBDA s :
        IF ~Contains(s.remote.keys, key)
        THEN [res |-> Err("Wallet", "Petition to delete key failed"), w |-> s]
        ELSE [res |-> Ok,
              w |-> [s EXCEPT !.remote.keys = Retain(@, key),
                              !.key_data = Retain(@, key)]]))

\* WalletTrait::delete_did
delete_did(w, did) ==
    AndThen(get_wallet(w), LAMBDA s1 :
    AndThen(get_token(s1), LAMBDA s :
        IF ~Contains(s.remote.dids, did)
        THEN [res |-> Err("Wallet", "Petition to delete did failed"), w |-> s]
        ELSE [res |-> Ok,
              w |-> [s EXCEPT !.remote.dids = Retain(@, did),
                              !.wallets[1].dids = Retain(@, did)]]))

\* WalletTrait::onboard
onboard(w, r) ==
    AndThen(register(w), LAMBDA s1 :
    AndThen(login(s1, r), LAMBDA s2 :
    AndThen(retrieve_wallet_info(s2), LAMBDA s3 :
    AndThen(retrieve_wallet_keys(s3), LAMBDA s4 :
    AndThen(retrieve_wallet_dids(s4), LAMBDA s5 :
    AndThen(get_wallet(s5), LAMBDA s6 :
    AndThen(wallet_get_key(s6), LAMBDA s7 :
        IF Head(s7.wallets).dids = << >>
        THEN [res |-> Err("Other", "Something unexpected happened"), w |-> s7]
        ELSE
    AndThen(delete_did(s7, Head(Head(s7.wallets).dids)), LAMBDA s8 :
    AndThen(delete_key(s8, Head(s7.key_data)), LAMBDA s9 :
    AndThen(register_key(s9), LAMBDA s10 :
    AndThen(retrieve_wallet_keys(s10), LAMBDA s11 :
    AndThen(register_did(s11), LAMBDA s12 :
    AndThen(retrieve_wallet_info(s12), LAMBDA s13 :
    AndThen(retrieve_wallet_dids(s13), LAMBDA s14 :
    AndThen(set_default_did(s14), LAMBDA s15 :
        get_did(s15))))))))))))))))

WalletInit ==
    /\ now = 0
    /\ net = DocV1
    /\ vcfg = None
    /\ vsess = None
    /\ \E remote \in RemoteWallets :
          vres = [op |-> "none", res |-> Ok, w |-> NewWallet(remote),
                  before |-> NewWallet(remote), did |-> None]
    /\ icfg = None
    /\ isess = None
    /\ ires = Idle

\* the handler of /wallet/login
Login ==
    /\ \E r \in LoginResponses :
          With(login(vres.w, r), LAMBDA o :
              vres' = [op |-> "login", res |-> o.res, w |-> o.w, before |-> vres.w,
                       did |-> None])
    /\ UNCHANGED <<now, net, vcfg, vsess, icfg, isess, ires>>

\* the handler of /wallet/logout
Logout ==
    /\ With(logout(vres.w), LAMBDA o :
          vres' = [op |-> "logout", res |-> o.res, w |-> o.w, before |-> vres.w,
                   did |-> None])
    /\ UNCHANGED <<now, net, vcfg, vsess, icfg, isess, ires>>

\* the handler of /wallet/onboard
Onboard ==
    /\ \E r \in LoginResponses :
          With(onboard(vres.w, r), LAMBDA o :
              vres' = [op |-> "onboard", res |-> o.res, w |-> o.w, before |-> vres.w,
                       did |-> IF IsOk(o.res) THEN Some(Head(Head(o.w.wallets).dids))
                               ELSE None])
    /\ UNCHANGED <<now, net, vcfg, vsess, icfg, isess, ires>>

WalletNext == Login \/ Logout \/ Onboard

WalletSpec == WalletInit /\ [][WalletNext]_vars

(***************************************************************************)
(* C34 (checked under WalletSpec)                                          *)
(***************************************************************************)
Session(w) == <<w.account_id, w.token, w.token_exp>>

\* C34: a login that returns an error leaves account_id, token and token_exp
\* as they were before the call.
C34_FailedLoginKeepsSession ==
    (vres.op = "login" /\ ~IsOk(vres.res)) => Session(vres.w) = Session(vres.before)

(***************************************************************************)
(* C37 (checked under WalletSpec)                                          *)
(***************************************************************************)
\* C37: after a successful onboard the DID that get_did returns, which is
\* also the wallet's default, is the DID registered in that run, and that DID
\* was created from the key that register_key imported in that run, however
\* many keys and DIDs the wallet held before.
C37_OnboardedDidIsTheNewOne ==
    (vres.op = "onboard" /\ IsOk(vres.res))
        => /\ vres.did = vres.w.remote.created
           /\ vres.w.remote.default = vres.did
           /\ vres.w.remote.imported.some
           /\ vres.did = Some(did_jwk(vres.w.remote.imported.v))


(***************************************************************************)
(* Wallet operations running concurrently                                  *)
(***************************************************************************)
MaxProcs == 2

ProcIds == 1..MaxProcs

Mutexes == {"wallet_session", "key_data"}

\* the steps of an operation: taking a mutex, synchronous code that ends with
\* the guard of mutex m going out of scope, and awaiting the wallet API
LockStep(m) == [k |-> "lock", m |-> m, e |-> ""]
SyncStep(e, m) == [k |-> "sync", m |-> m, e |-> e]
AwaitStep(e) == [k |-> "await", m |-> "", e |-> e]

\* get_wallet : lock, clone the first wallet, drop the guard on return
get_wallet_steps ==
    <<LockStep("wallet_session"), SyncStep("get_wallet", "wallet_session")>>

\* get_token : lock, clone the token, drop the guard on return
get_token_steps ==
    <<LockStep("wallet_session"), SyncStep("get_token", "wallet_session")>>

\* a retrieve_wallet_dids that asks for the token while it holds the session
retrieve_wallet_dids_steps_nested ==
    get_wallet_steps
    \o <<LockStep("wallet_session")>> \o get_token_steps
    \o <<AwaitStep("get_dids"), SyncStep("merge_dids", "wallet_session")>>

\* retrieve_wallet_dids
retrieve_wallet_dids_steps ==
    get_wallet_steps \o get_token_steps
    \o <<AwaitStep("get_dids"),
         LockStep("wallet_session"), SyncStep("merge_dids", "wallet_session")>>

\* delete_did
delete_did_steps ==
    get_wallet_steps \o get_token_steps
    \o <<AwaitStep("delete_did"),
         LockStep("wallet_session"), SyncStep("retain_did", "wallet_session")>>

\* delete_key
delete_key_steps ==
    get_wallet_steps \o get_token_steps
    \o <<AwaitStep("delete_key"),
         LockStep("key_data"), SyncStep("retain_key", "key_data")>>

\* login
login_steps ==
    <<AwaitStep("post_login"),
      LockStep("wallet_session"), SyncStep("store_login", "wallet_session")>>

WalletOps == {"retrieve_wallet_dids", "delete_did", "delete_key", "login"}

StepsOf(op) ==
    CASE op = "retrieve_wallet_dids" -> retrieve_wallet_dids_steps
      [] op = "delete_did" -> delete_did_steps
      [] op = "delete_key" -> delete_key_steps
      [] OTHER -> login_steps

\* the arguments an operation can be called with
ArgsOf(op) ==
    CASE op = "delete_did" -> {did_jwk(VaultKey)}
      [] op = "delete_key" -> {VaultKey}
      [] OTHER -> {""}

\* the login answer of the wallet API during the concurrent runs
RaceLogin ==
    [status |-> 200, body |-> "login", id |-> "acc1", token |-> "tokB", parts |-> 3,
     payload |-> "claims", exp |-> 9]

\* the effect of one step of process state q on the wallet state w
StepEffect(e, w, q) ==
    CASE e = "get_wallet" -> [out |-> get_wallet(w), tmp |-> q.tmp]
      [] e = "get_token" -> [out |-> get_token(w), tmp |-> q.tmp]
      [] e = "get_dids" -> [out |-> [res |-> Ok, w |-> w], tmp |-> w.remote.dids]
      [] e = "merge_dids" -> [out |-> merge_dids(w, q.tmp), tmp |-> q.tmp]
      [] e = "delete_did" ->
            [out |-> IF Contains(w.remote.dids, q.arg)
                     THEN [res |-> Ok, w |-> [w EXCEPT !.remote.dids = Retain(@, q.arg)]]
                     ELSE [res |-> Err("Wallet", "Petition to delete did failed"), w |-> w],
             tmp |-> q.tmp]
      [] e = "retain_did" ->
            [out |-> IF w.wallets = << >>
                     THEN [res |-> Err("MissingAction", "No wallet available"), w |-> w]
                     ELSE [res |-> Ok,
                           w |-> [w EXCEPT !.wallets[1].dids = Retain(@, q.arg)]],
             tmp |-> q.tmp]
      [] e = "delete_key" ->
            [out |-> IF Contains(w.remote.keys, q.arg)
                     THEN [res |-> Ok, w |-> [w EXCEPT !.remote.keys = Retain(@, q.arg)]]
                     ELSE [res |-> Err("Wallet", "Petition to delete key failed"), w |-> w],
             tmp |-> q.tmp]
      [] e = "retain_key" ->
            [out |-> [res |-> Ok, w |-> [w EXCEPT !.key_data = Retain(@, q.arg)]],
             tmp |-> q.tmp]
      [] e = "post_login" -> [out |-> [res |-> Ok, w |-> w], tmp |-> q.tmp]
      [] OTHER -> [out |-> login(w, RaceLogin), tmp |-> q.tmp]

ProcIdle == [op |-> "", arg |-> "", pc |-> 0, tmp |-> << >>]

\* the wallet as partial_onboard leaves it
Loaded(remote) ==
    [account_id |-> Some("acc1"), token |-> Some("tokA"), token_exp |-> Some(9),
     wallets |-> <<[id |-> "w1", dids |-> remote.dids]>>,
     key_data |-> remote.keys, remote |-> remote]

RaceInit ==
    /\ now = 0
    /\ net = DocV1
    /\ vcfg = None
    /\ vsess = None
    /\ \E remote \in {r \in RemoteWallets : r.keys = <<VaultKey, "keyOld">>} :
       \E w \in {NewWallet(remote), Loaded(remote)} :
          vres = [op |-> "race", res |-> Ok, w |-> w,
                  held |-> [m \in Mutexes |-> 0],
                  p |-> [i \in ProcIds |-> ProcIdle],
                  deleted |-> {}]
    /\ icfg = None
    /\ isess = None
    /\ ires = Idle

\* the step process i is at
StepAt(i) == StepsOf(vres.p[i].op)[vres.p[i].pc]

Active(i) == vres.p[i].pc \in 1..Len(StepsOf(vres.p[i].op))

\* the mutexes without the guards of process i, which are dropped on return
Dropped(held, i) == [m \in Mutexes |-> IF held[m] = i THEN 0 ELSE held[m]]

\* the mutexes after the guard of m went out of scope
Released(held, m) == [n \in Mutexes |-> IF n = m THEN 0 ELSE held[n]]

\* a handler calls the operation
Call(i) ==
    /\ vres.p[i].pc = 0
    /\ \E op \in WalletOps : \E arg \in ArgsOf(op) :
          vres' = [vres EXCEPT !.p[i] = [op |-> op, arg |-> arg, pc |-> 1, tmp |-> << >>]]
    /\ UNCHANGED <<now, net, vcfg, vsess, icfg, isess, ires>>

\* Mutex::lock().await completes
Lock(i) ==
    /\ Active(i)
    /\ StepAt(i).k = "lock"
    /\ vres.held[StepAt(i).m] = 0
    /\ vres' = [vres EXCEPT !.held[StepAt(i).m] = i, !.p[i].pc = @ + 1]
    /\ UNCHANGED <<now, net, vcfg, vsess, icfg, isess, ires>>

\* synchronous code up to the end of the guard's scope, or an awaited request;
\* an error returns from the operation
Run(i) ==
    /\ Active(i)
    /\ StepAt(i).k \in {"sync", "await"}
    /\ With(StepEffect(StepAt(i).e, vres.w, vres.p[i]), LAMBDA r :
          IF IsOk(r.out.res)
          THEN vres' = [vres EXCEPT !.w = r.out.w, !.held = Released(@, StepAt(i).m),
                                    !.p[i].tmp = r.tmp, !.p[i].pc = @ + 1]
          ELSE vres' = [vres EXCEPT !.w = r.out.w, !.held = Dropped(@, i),
                                    !.res = r.out.res, !.p[i] = ProcIdle])
    /\ UNCHANGED <<now, net, vcfg, vsess, icfg, isess, ires>>

\* the operation returns Ok(())
Return(i) ==
    /\ vres.p[i].pc = Len(StepsOf(vres.p[i].op)) + 1
    /\ vres' = [vres EXCEPT !.held = Dropped(@, i),
                            !.res = Ok, !.p[i] = ProcIdle,
                            !.deleted = IF vres.p[i].op = "delete_did"
                                        THEN @ \cup {vres.p[i].arg} ELSE @]
    /\ UNCHANGED <<now, net, vcfg, vsess, icfg, isess, ires>>

Calls == \E i \in ProcIds : Call(i)
Locks == \E i \in ProcIds : Lock(i)
Runs == \E i \in ProcIds : Run(i)
Returns == \E i \in ProcIds : Return(i)

RaceNext == Calls \/ Locks \/ Runs \/ Returns

RaceSpec == RaceInit /\ [][RaceNext]_vars

(***************************************************************************)
(* C38 (checked under RaceSpec)                                            *)
(***************************************************************************)
LocalDids == IF vres.w.wallets = << >> THEN << >> ELSE vres.w.wallets[1].dids

\* C38: once delete_did(d) has returned successfully, d is not in the local
\* DID list, whatever retrieve_wallet_dids runs concurrently (no DID is
\* registered at the wallet again in these runs).
C38_DeletedDidStaysAbsent ==
    \A d \in vres.deleted : ~Contains(LocalDids, d)

(***************************************************************************)
(* C39 (checked under RaceSpec)                                            *)
(***************************************************************************)
\* process i is in Mutex::lock().await
AtLock(i) == Active(i) /\ StepAt(i).k = "lock"

\* C39: an operation that waits for wallet_session or key_data holds neither,
\* and whenever an operation is under way some operation can take its next
\* step: no interleaving ends with every operation blocked.
C39_NoNestedLocks ==
    /\ \A i \in ProcIds : AtLock(i) => \A m \in Mutexes : vres.held[m] # i
    /\ (\E i \in ProcIds : vres.p[i].pc # 0) => ENABLED (Locks \/ Runs \/ Returns)

\* one operation waits for the session while another holds it
C39_Witness ==
    /\ AtLock(1)
    /\ StepAt(1).m = "wallet_session"
    /\ vres.held["wallet_session"] = 2
    /\ vres.held["key_data"] # 1
    /\ vres.p[2].op # vres.p[1].op
====
